---- MODULE Spec2Model ----
(***************************************************************************)
(* Model of the Outer Wilds Mod Manager back end: the tauri command        *)
(* handlers of owmods_gui/backend/src/commands.rs over the shared State    *)
(* of main.rs, and the progress protocol of owmods_core/src/progress.rs.   *)
(***************************************************************************)
EXTENDS Integers, Sequences, FiniteSets, TLC

(***************************************************************************)
(* Bounds of the model.                                                    *)
(***************************************************************************)
\* number of command handlers that may be in flight at once
NumProcs == 2
\* longest unique_names vector handed to update_all_mods
MaxBatch == 2
\* most '|'-separated fields of a line handed to ProgressPayload::parse
MaxFields == 6
\* most calls of inc, set_msg and finish on one ProgressBar
MaxOps == 3
\* width in bits the model gives ProgressValue (u32 in the program, progress.rs:4)
ValueBits == 3

\* lines of one channel decoded before the line at hand
MaxDecoded == 1
\* outermost calls of toggle_mod in one run
MaxCalls == 2
\* activations of toggle_mod the call stack has room for
MaxDepth == 6
\* messages the games send to their log sessions, all sessions together
MaxMsgs == 2
\* calls of clear_logs, all ports together
MaxClears == 1

\* how many pop_protocol_url calls are made
MaxPops == 3

\* how many deep links arrive while the program runs
MaxLinks == 1

Procs == 1..NumProcs
NoProc == 0

\* constants::OWML_UNIQUE_NAME, imported at commands.rs:13
OWML_UNIQUE_NAME == "Alek.OWML"
Names == {OWML_UNIQUE_NAME, "Mod.A"}
NoName == "-"

\* the tokio RwLocks of State (main.rs:38-55) the handlers below take
Locks == {"config", "gui_config", "local_db", "remote_db", "game_log", "mods_in_progress",
          "protocol_url"}

\* what RemoteDatabase::fetch can return: the unique names the registry lists
RemoteSnapshots == {{OWML_UNIQUE_NAME}, Names}

\* Option<ProtocolPayload>::None
NoUrl == [install_type |-> "None", payload |-> "-"]

\* what LocalDatabase::fetch can return: the mods found on disk, none of them checked
\* for updates yet
LocalSnapshots == {[mods |-> m, updates |-> {}] : m \in {{}, {"Mod.A"}}}

VARIABLES
    pc,               \* position of each handler invocation
    unique_name,      \* the unique_name argument of a single-mod handler
    names_arg,        \* the unique_names argument of update_all_mods
    unique_names,     \* update_all_mods: the filtered vector that shadows the argument
    result,           \* what the handler returned
    seen,             \* what a reader saw of a database on its first pass
    readers,          \* per lock: the tasks holding a read guard
    writer,           \* per lock: the task holding the write guard
    mods_in_progress, \* State::mods_in_progress (Vec<String>)
    local_db,         \* State::local_db
    remote_db,        \* State::remote_db
    fs_events,        \* per handler: the TOGGLE_FS_WATCH payloads it emitted, in order
    input,            \* the log line handed to ProgressPayload::parse
    payload,          \* what ProgressPayload::parse made of it
    decoded,          \* the payloads of the lines parsed before it, in order
    bar,              \* a ProgressBar (progress.rs:135-141)
    alive,            \* whether the ProgressBar has been dropped
    finish_calls,     \* how often ProgressBar::finish was called by the bar's owner
    emitted,          \* the lines the bar logged to target "progress", in order
    files,            \* per mod directory: the contents of config.json and default-config.json
    manifests,        \* per mod directory: the dependencies listed in manifest.json
    stack,            \* the activations of toggle_mod, the innermost last
    tcall,            \* the arguments of the outermost toggle_mod call
    tresult,          \* what the outermost toggle_mod call returned
    tcalls,           \* how many outermost toggle_mod calls were made
    files_at_call,    \* files as the outermost call found them
    tprev,            \* the outermost call before this one: arguments, result, files left
    game_log,         \* State::game_log: per open port the lines of the session
    log_file,         \* per port: the messages written to the log file of the session
    chan,             \* per port: the mpsc channel from the log server to log_handler
    held,             \* per port: the message log_handler took from the channel
    log_hist,         \* per port: what arrived, what was appended, cleared and not written
    log_events,       \* per port: the LOG-UPDATE and LOG-FATAL events emitted for it, in order
    protocol_url,     \* State::protocol_url (Option<ProtocolPayload>)
    protocol_events,  \* the PROTOCOL_INVOKE events emitted, in order
    pops              \* how many pop_protocol_url calls were made

\* the state of the command handlers
hvars == <<pc, unique_name, names_arg, unique_names, result, seen, readers, writer,
           mods_in_progress, local_db, remote_db, fs_events>>

\* the state of the progress-line parser
pvars == <<input, payload, decoded>>

\* the state of a progress bar
bvars == <<bar, alive, finish_calls, emitted>>

\* the state of the mod directories and of toggle_mod
tvars == <<files, manifests, stack, tcall, tresult, tcalls, files_at_call, tprev>>

\* the state of the log sessions
lvars == <<game_log, log_file, chan, held, log_hist, log_events>>

\* the state of the protocol URL the program was started with
uvars == <<protocol_url, protocol_events, pops>>

vars == <<hvars, pvars, bvars, tvars, lvars, uvars>>

\* what the command handlers leave alone
notH == <<pvars, bvars, tvars, lvars, uvars>>

\* what the parser leaves alone
notP == <<hvars, bvars, tvars, lvars, uvars>>

\* what a progress bar leaves alone
notB == <<hvars, pvars, tvars, lvars, uvars>>

\* what toggle_mod leaves alone
notT == <<hvars, pvars, bvars, lvars, uvars>>

\* what the log sessions leave alone: everything but the game_log lock
notL == <<pc, unique_name, names_arg, unique_names, result, seen, mods_in_progress,
          local_db, remote_db, fs_events, pvars, bvars, tvars, uvars>>

(***************************************************************************)
(* Vec<String> helpers                                                     *)
(***************************************************************************)
Range(s) == {s[i] : i \in 1..Len(s)}

contains(v, m) == m \in Range(v)

RECURSIVE retain(_, _)
\* Vec::retain: keeps, in order, the elements of v that satisfy keep
retain(v, keep) ==
    IF v = <<>> THEN <<>>
    ELSE IF keep[Head(v)] THEN <<Head(v)>> \o retain(Tail(v), keep)
         ELSE retain(Tail(v), keep)

Count(v, m) == Cardinality({i \in 1..Len(v) : v[i] = m})

SeqsUpTo(S, n) == UNION {[1..k -> S] : k \in 0..n}

(***************************************************************************)
(* tokio::sync::RwLock: any number of readers or one writer.               *)
(***************************************************************************)
CanRead(l) == writer[l] = NoProc

CanWrite(l) == writer[l] = NoProc /\ readers[l] = {}

AcquireRead(p, l, rd) == [rd EXCEPT ![l] = @ \cup {p}]

\* the read guards a handler takes one after the other on locks that no handler
\* running beside it writes
CanReadAll(ls) == \A l \in ls : CanRead(l)

AcquireReadAll(p, ls) == [l \in Locks |-> IF l \in ls THEN readers[l] \cup {p} ELSE readers[l]]

DbGuards == {"local_db", "remote_db", "config"}

\* every guard task p holds is dropped when its handler returns
DropAll(p) ==
    /\ readers' = [l \in Locks |-> readers[l] \ {p}]
    /\ writer' = [l \in Locks |-> IF writer[l] = p THEN NoProc ELSE writer[l]]

Idle(p) == pc[p] = "idle"

NoResult == [val |-> "none", line |-> 0]

\* the handler returns val from the return (or ?) at the given line of commands.rs
Return(p, val, line) ==
    /\ pc' = [pc EXCEPT ![p] = "done"]
    /\ result' = [result EXCEPT ![p] = [val |-> val, line |-> line]]
    /\ DropAll(p)

Goto(p, l) == pc' = [pc EXCEPT ![p] = l]

\* take a read guard on lock l and move on to label next
ReadStep(p, from, l, next) ==
    /\ pc[p] = from
    /\ CanRead(l)
    /\ readers' = AcquireRead(p, l, readers)
    /\ Goto(p, next)
    /\ UNCHANGED <<unique_name, names_arg, unique_names, result, seen, writer,
                   mods_in_progress, local_db, remote_db, fs_events>>
    /\ UNCHANGED notH

toggle_fs_watch(p, enabled) == fs_events' = [fs_events EXCEPT ![p] = Append(@, enabled)]

(***************************************************************************)
(* mark_mod_busy: one critical section on mods_in_progress                 *)
(***************************************************************************)
mark_mod_busy(name, busy) ==
    IF busy THEN Append(mods_in_progress, name)
    ELSE retain(mods_in_progress, [m \in Names |-> m # name])

(***************************************************************************)
(* install_mod                                                             *)
(***************************************************************************)
\* mark_mod_busy(unique_name, true, ...)
InstallModMark(p) ==
    /\ Idle(p)
    /\ CanWrite("mods_in_progress")
    /\ \E n \in Names :
          /\ unique_name' = [unique_name EXCEPT ![p] = n]
          /\ mods_in_progress' = mark_mod_busy(n, TRUE)
    /\ Goto(p, "im_read")
    /\ UNCHANGED <<names_arg, unique_names, result, seen, readers, writer,
                   local_db, remote_db, fs_events>>
    /\ UNCHANGED notH

\* the three read guards, then the reinstall dialog; declining it returns Ok(())
InstallModCheck(p) ==
    /\ pc[p] = "im_read"
    /\ CanReadAll(DbGuards)
    /\ \E res \in BOOLEAN :
          IF unique_name[p] \in local_db.mods /\ ~res
          THEN Return(p, "Ok", 255)
          ELSE /\ Goto(p, "im_installing")
               /\ readers' = AcquireReadAll(p, DbGuards)
               /\ UNCHANGED <<result, writer>>
    /\ UNCHANGED <<unique_name, names_arg, unique_names, seen,
                   mods_in_progress, local_db, remote_db, fs_events>>
    /\ UNCHANGED notH

\* install_mod_from_db(...).await?
InstallModFromDb(p) ==
    /\ pc[p] = "im_installing"
    /\ \E ok \in BOOLEAN :
          IF ok
          THEN /\ Goto(p, "im_unmark")
               /\ UNCHANGED <<result, readers, writer>>
          ELSE Return(p, "Err", 266)
    /\ UNCHANGED <<unique_name, names_arg, unique_names, seen,
                   mods_in_progress, local_db, remote_db, fs_events>>
    /\ UNCHANGED notH

\* mark_mod_busy(unique_name, false, ...); Ok(())
InstallModUnmark(p) ==
    /\ pc[p] = "im_unmark"
    /\ CanWrite("mods_in_progress")
    /\ mods_in_progress' = mark_mod_busy(unique_name[p], FALSE)
    /\ Return(p, "Ok", 268)
    /\ UNCHANGED <<unique_name, names_arg, unique_names, seen,
                   local_db, remote_db, fs_events>>
    /\ UNCHANGED notH

(***************************************************************************)
(* update_mod                                                              *)
(***************************************************************************)
UpdateModMark(p) ==
    /\ Idle(p)
    /\ CanWrite("mods_in_progress")
    /\ \E n \in Names :
          /\ unique_name' = [unique_name EXCEPT ![p] = n]
          /\ mods_in_progress' = mark_mod_busy(n, TRUE)
    /\ Goto(p, "um_read")
    /\ UNCHANGED <<names_arg, unique_names, result, seen, readers, writer,
                   local_db, remote_db, fs_events>>
    /\ UNCHANGED notH

\* the three read guards, toggle_fs_watch(false), and for OWML the get_owml() lookup
UpdateModRead(p) ==
    /\ pc[p] = "um_read"
    /\ CanReadAll(DbGuards)
    /\ toggle_fs_watch(p, FALSE)
    /\ IF unique_name[p] = OWML_UNIQUE_NAME /\ OWML_UNIQUE_NAME \notin remote_db
       THEN Return(p, "Err", 453)
       ELSE /\ readers' = AcquireReadAll(p, DbGuards)
            /\ Goto(p, "um_installing")
            /\ UNCHANGED <<result, writer>>
    /\ UNCHANGED <<unique_name, names_arg, unique_names, seen,
                   mods_in_progress, local_db, remote_db>>
    /\ UNCHANGED notH

\* download_and_install_owml(...).await? / install_mod_from_db(...).await?
UpdateModInstall(p) ==
    /\ pc[p] = "um_installing"
    /\ \E ok \in BOOLEAN :
          IF ok
          THEN /\ Goto(p, "um_unmark")
               /\ toggle_fs_watch(p, TRUE)
               /\ UNCHANGED <<result, readers, writer>>
          ELSE /\ Return(p, "Err", IF unique_name[p] = OWML_UNIQUE_NAME THEN 455 ELSE 465)
               /\ UNCHANGED fs_events
    /\ UNCHANGED <<unique_name, names_arg, unique_names, seen,
                   mods_in_progress, local_db, remote_db>>
    /\ UNCHANGED notH

UpdateModUnmark(p) ==
    /\ pc[p] = "um_unmark"
    /\ CanWrite("mods_in_progress")
    /\ mods_in_progress' = mark_mod_busy(unique_name[p], FALSE)
    /\ Return(p, "Ok", 469)
    /\ UNCHANGED <<unique_name, names_arg, unique_names, seen,
                   local_db, remote_db, fs_events>>
    /\ UNCHANGED notH

(***************************************************************************)
(* update_all_mods                                                         *)
(***************************************************************************)
\* unique_names.iter().filter(|m| !busy_mods.contains(m)).cloned().collect()
FilterBusy(names, busy_mods) == retain(names, [m \in Names |-> ~contains(busy_mods, m)])

\* the vectors of unique names update_all_mods is called with: the mods that have an
\* update, each named once
Batches ==
    {ns \in SeqsUpTo(Names, MaxBatch) : \A i, j \in 1..Len(ns) : ns[i] = ns[j] => i = j}

\* toggle_fs_watch(false) and the three read guards
UpdateAllRead(p) ==
    /\ Idle(p)
    /\ CanReadAll(DbGuards)
    /\ \E ns \in Batches : names_arg' = [names_arg EXCEPT ![p] = ns]
    /\ toggle_fs_watch(p, FALSE)
    /\ readers' = AcquireReadAll(p, DbGuards)
    /\ Goto(p, "ua_lock")
    /\ UNCHANGED <<unique_name, unique_names, result, seen, writer,
                   mods_in_progress, local_db, remote_db>>
    /\ UNCHANGED notH

\* update_all_mods with the filter and the extend under two separate guards
UpdateAllFilterDropsGuard(p) ==
    /\ pc[p] = "ua_lock"
    /\ CanWrite("mods_in_progress")
    /\ unique_names' = [unique_names EXCEPT ![p] = FilterBusy(names_arg[p], mods_in_progress)]
    /\ Goto(p, "ua_extend")
    /\ UNCHANGED <<unique_name, names_arg, result, seen, readers, writer,
                   mods_in_progress, local_db, remote_db, fs_events>>
    /\ UNCHANGED notH

\* let mut busy_mods = state.mods_in_progress.write().await; the filter
UpdateAllFilter(p) ==
    /\ pc[p] = "ua_lock"
    /\ CanWrite("mods_in_progress")
    /\ writer' = [writer EXCEPT !["mods_in_progress"] = p]
    /\ unique_names' = [unique_names EXCEPT ![p] = FilterBusy(names_arg[p], mods_in_progress)]
    /\ Goto(p, "ua_extend")
    /\ UNCHANGED <<unique_name, names_arg, result, seen, readers,
                   mods_in_progress, local_db, remote_db, fs_events>>
    /\ UNCHANGED notH

\* busy_mods.extend(unique_names.clone()); drop(busy_mods); install_mods_parallel is
\* entered with the filtered vector (the argument it shadows is not read again)
UpdateAllExtend(p) ==
    /\ pc[p] = "ua_extend"
    /\ mods_in_progress' = mods_in_progress \o unique_names[p]
    /\ writer' = [writer EXCEPT !["mods_in_progress"] = IF @ = p THEN NoProc ELSE @]
    /\ names_arg' = [names_arg EXCEPT ![p] = <<>>]
    /\ Goto(p, "ua_installing")
    /\ UNCHANGED <<unique_name, unique_names, result, seen, readers,
                   local_db, remote_db, fs_events>>
    /\ UNCHANGED notH

\* install_mods_parallel(...).await?
UpdateAllInstall(p) ==
    /\ pc[p] = "ua_installing"
    /\ \E ok \in BOOLEAN :
          IF ok
          THEN /\ Goto(p, "ua_clear")
               /\ UNCHANGED <<result, readers, writer>>
          ELSE Return(p, "Err", 491)
    /\ UNCHANGED <<unique_name, names_arg, unique_names, seen,
                   mods_in_progress, local_db, remote_db, fs_events>>
    /\ UNCHANGED notH

\* the second write guard, retain, toggle_fs_watch(true), Ok(())
UpdateAllClear(p) ==
    /\ pc[p] = "ua_clear"
    /\ CanWrite("mods_in_progress")
    /\ mods_in_progress' =
          retain(mods_in_progress, [m \in Names |-> ~contains(unique_names[p], m)])
    /\ toggle_fs_watch(p, TRUE)
    /\ Return(p, "Ok", 496)
    /\ UNCHANGED <<unique_name, names_arg, unique_names, seen, local_db, remote_db>>
    /\ UNCHANGED notH

(***************************************************************************)
(* get_mod_busy                                                            *)
(***************************************************************************)
GetModBusy(p) ==
    /\ Idle(p)
    /\ CanRead("mods_in_progress")
    /\ \E n \in Names :
          /\ unique_name' = [unique_name EXCEPT ![p] = n]
          /\ pc' = [pc EXCEPT ![p] = "done"]
          /\ result' = [result EXCEPT ![p] = [val |-> contains(mods_in_progress, n), line |-> 780]]
    /\ UNCHANGED <<names_arg, unique_names, seen, readers, writer,
                   mods_in_progress, local_db, remote_db, fs_events>>
    /\ UNCHANGED notH

(***************************************************************************)
(* The install/update orchestrator                                         *)
(***************************************************************************)
InitHandlers ==
    /\ pc = [p \in Procs |-> "idle"]
    /\ unique_name = [p \in Procs |-> NoName]
    /\ names_arg = [p \in Procs |-> <<>>]
    /\ unique_names = [p \in Procs |-> <<>>]
    /\ result = [p \in Procs |-> NoResult]
    /\ seen = [p \in Procs |-> {}]
    /\ readers = [l \in Locks |-> {}]
    /\ writer = [l \in Locks |-> NoProc]
    /\ mods_in_progress = <<>>
    /\ fs_events = [p \in Procs |-> <<>>]

\* no command handler runs
NoHandlers ==
    /\ InitHandlers
    /\ local_db = [mods |-> {}, updates |-> {}]
    /\ remote_db = {}

\* no progress line is being parsed
NoParse ==
    /\ input = <<>>
    /\ payload = [kind |-> "NotParsed"]
    /\ decoded = <<>>

\* no progress bar exists
NoBar ==
    /\ bar = [id |-> <<>>, len |-> 0, progress |-> 0, failure_message |-> <<>>,
              complete |-> FALSE]
    /\ alive = FALSE
    /\ finish_calls = 0
    /\ emitted = <<>>

\* no mod directory is looked at and toggle_mod is not called
NoToggle ==
    /\ files = <<>>
    /\ manifests = <<>>
    /\ stack = <<>>
    /\ tcall = [mod |-> "-", enabled |-> FALSE, recursive |-> FALSE]
    /\ tresult = "none"
    /\ tcalls = 0
    /\ files_at_call = <<>>
    /\ tprev = <<>>

\* no game runs: no log session exists
NoLogs ==
    /\ game_log = <<>>
    /\ log_file = <<>>
    /\ chan = <<>>
    /\ held = <<>>
    /\ log_hist = <<>>
    /\ log_events = <<>>

\* pop_protocol_url is not called and no deep link arrives
NoProtocol ==
    /\ protocol_url = NoUrl
    /\ protocol_events = <<>>
    /\ pops = 0

\* main.rs:60-61: local_db is what LocalDatabase::fetch found on disk (here Mod.A is
\* installed), remote_db is empty until the first refresh_remote_db has filled it
Init ==
    /\ InitHandlers /\ NoParse /\ NoBar /\ NoToggle /\ NoLogs /\ NoProtocol
    /\ local_db = [mods |-> {"Mod.A"}, updates |-> {}]
    /\ remote_db \in {{}, Names}

Next ==
    \E p \in Procs :
        \/ InstallModMark(p) \/ InstallModCheck(p) \/ InstallModFromDb(p)
        \/ InstallModUnmark(p)
        \/ UpdateModMark(p) \/ UpdateModRead(p) \/ UpdateModInstall(p)
        \/ UpdateModUnmark(p)
        \/ UpdateAllRead(p) \/ UpdateAllFilter(p) \/ UpdateAllExtend(p)
        \/ UpdateAllInstall(p) \/ UpdateAllClear(p)
        \/ GetModBusy(p)

Spec == Init /\ [][Next]_vars

(***************************************************************************)
(* initial_setup                                                           *)
(***************************************************************************)
\* config.write(); *config = Config::get(None)?
InitialSetupConfig(p) ==
    /\ Idle(p)
    /\ CanWrite("config")
    /\ \E ok \in BOOLEAN :
          IF ok
          THEN /\ writer' = [writer EXCEPT !["config"] = p]
               /\ Goto(p, "is_gui")
               /\ UNCHANGED <<result, readers>>
          ELSE Return(p, "Err", 85)
    /\ UNCHANGED <<unique_name, names_arg, unique_names, seen,
                   mods_in_progress, local_db, remote_db, fs_events>>
    /\ UNCHANGED notH

\* gui_config.write(), with the config write guard still held; GuiConfig::get()?
InitialSetupGui(p) ==
    /\ pc[p] = "is_gui"
    /\ CanWrite("gui_config")
    /\ \E ok \in BOOLEAN : IF ok THEN Return(p, "Ok", 90) ELSE Return(p, "Err", 87)
    /\ UNCHANGED <<unique_name, names_arg, unique_names, seen,
                   mods_in_progress, local_db, remote_db, fs_events>>
    /\ UNCHANGED notH

(***************************************************************************)
(* start_logs                                                              *)
(***************************************************************************)
StartLogsGameLog(p) ==
    /\ Idle(p)
    /\ CanRead("game_log")
    /\ readers' = AcquireRead(p, "game_log", readers)
    /\ Goto(p, "sl_gui")
    /\ UNCHANGED <<unique_name, names_arg, unique_names, result, seen, writer,
                   mods_in_progress, local_db, remote_db, fs_events>>
    /\ UNCHANGED notH

StartLogsGui(p) == ReadStep(p, "sl_gui", "gui_config", "sl_conf")

\* config.read().await.clone() with the game_log and gui_config guards held, then the
\* branch on gui_config.no_log_server / log_multi_window / game_logs.keys().count()
StartLogsConf(p) ==
    /\ pc[p] = "sl_conf"
    /\ CanRead("config")
    /\ \E branch \in {"no_log_server", "window", "reuse"} :
          /\ readers' = [readers EXCEPT
                 !["gui_config"] = @ \ {p},
                 !["game_log"] = IF branch = "window" THEN @ \ {p} ELSE @]
          /\ Goto(p, IF branch = "reuse" THEN "sl_conf2" ELSE "sl_launch")
    /\ UNCHANGED <<unique_name, names_arg, unique_names, result, seen, writer,
                   mods_in_progress, local_db, remote_db, fs_events>>
    /\ UNCHANGED notH

\* the second config.read().await.clone(), then drop(game_logs)
StartLogsConf2(p) ==
    /\ pc[p] = "sl_conf2"
    /\ CanRead("config")
    /\ readers' = [readers EXCEPT !["game_log"] = @ \ {p}]
    /\ Goto(p, "sl_launch")
    /\ UNCHANGED <<unique_name, names_arg, unique_names, result, seen, writer,
                   mods_in_progress, local_db, remote_db, fs_events>>
    /\ UNCHANGED notH

\* launch_game(...).await? / make_log_window(...).await?
StartLogsLaunch(p) ==
    /\ pc[p] = "sl_launch"
    /\ \E ok \in BOOLEAN : IF ok THEN Return(p, "Ok", 519) ELSE Return(p, "Err", 517)
    /\ UNCHANGED <<unique_name, names_arg, unique_names, seen,
                   mods_in_progress, local_db, remote_db, fs_events>>
    /\ UNCHANGED notH

(***************************************************************************)
(* refresh_local_db and the task it spawns                                 *)
(***************************************************************************)
\* toggle_fs_watch(false); config.read()
RefreshLocalConf(p) ==
    /\ Idle(p)
    /\ CanRead("config")
    /\ toggle_fs_watch(p, FALSE)
    /\ readers' = AcquireRead(p, "config", readers)
    /\ Goto(p, "rl_db")
    /\ UNCHANGED <<unique_name, names_arg, unique_names, result, seen, writer,
                   mods_in_progress, local_db, remote_db>>
    /\ UNCHANGED notH

\* local_db.write(), with the config read guard held
RefreshLocalLock(p) ==
    /\ pc[p] = "rl_db"
    /\ CanWrite("local_db")
    /\ writer' = [writer EXCEPT !["local_db"] = p]
    /\ seen' = [seen EXCEPT ![p] = local_db]
    /\ Goto(p, "rl_fetch")
    /\ UNCHANGED <<unique_name, names_arg, unique_names, result, readers,
                   mods_in_progress, local_db, remote_db, fs_events>>
    /\ UNCHANGED notH

\* LocalDatabase::fetch(..)?; *db = local_db; the guard dropped; LOCAL-REFRESH;
\* toggle_fs_watch(true); the validation task spawned; Ok(())
RefreshLocalFetch(p) ==
    /\ pc[p] = "rl_fetch"
    /\ \E ok \in BOOLEAN :
          IF ok
          THEN /\ \E fetched \in LocalSnapshots : local_db' = fetched
               /\ toggle_fs_watch(p, TRUE)
               /\ pc' = [pc EXCEPT ![p] = "rl_spawned"]
               /\ result' = [result EXCEPT ![p] = [val |-> "Ok", line |-> 113]]
          ELSE /\ pc' = [pc EXCEPT ![p] = "done"]
               /\ result' = [result EXCEPT ![p] = [val |-> "Err", line |-> 99]]
               /\ UNCHANGED <<local_db, fs_events>>
    /\ DropAll(p)
    /\ UNCHANGED <<unique_name, names_arg, unique_names, seen,
                   mods_in_progress, remote_db>>
    /\ UNCHANGED notH

\* the spawned task: local_db.write()
SpawnedLock(p) ==
    /\ pc[p] = "rl_spawned"
    /\ CanWrite("local_db")
    /\ writer' = [writer EXCEPT !["local_db"] = p]
    /\ Goto(p, "rl_validate")
    /\ UNCHANGED <<unique_name, names_arg, unique_names, result, seen, readers,
                   mods_in_progress, local_db, remote_db, fs_events>>
    /\ UNCHANGED notH

\* LocalDatabase::validate_updates: the local mods the remote snapshot lists are
\* compared with it and flagged
validate_updates(db, remote) == [db EXCEPT !.updates = db.mods \cap remote]

\* the spawned task: remote_db.read(), with the local_db write guard held;
\* local_db.validate_updates(&remote_db); LOCAL-REFRESH
SpawnedValidate(p) ==
    /\ pc[p] = "rl_validate"
    /\ CanRead("remote_db")
    /\ local_db' = validate_updates(local_db, remote_db)
    /\ pc' = [pc EXCEPT ![p] = "done"]
    /\ DropAll(p)
    /\ UNCHANGED <<unique_name, names_arg, unique_names, result, seen,
                   mods_in_progress, remote_db, fs_events>>
    /\ UNCHANGED notH

(***************************************************************************)
(* refresh_remote_db                                                       *)
(***************************************************************************)
RefreshRemoteConf(p) ==
    /\ Idle(p)
    /\ CanRead("config")
    /\ toggle_fs_watch(p, FALSE)
    /\ readers' = AcquireRead(p, "config", readers)
    /\ Goto(p, "rr_db")
    /\ UNCHANGED <<unique_name, names_arg, unique_names, result, seen, writer,
                   mods_in_progress, local_db, remote_db>>
    /\ UNCHANGED notH

\* remote_db.write(), with the config read guard held
RefreshRemoteLock(p) ==
    /\ pc[p] = "rr_db"
    /\ CanWrite("remote_db")
    /\ writer' = [writer EXCEPT !["remote_db"] = p]
    /\ seen' = [seen EXCEPT ![p] = remote_db]
    /\ Goto(p, "rr_fetch")
    /\ UNCHANGED <<unique_name, names_arg, unique_names, result, readers,
                   mods_in_progress, local_db, remote_db, fs_events>>
    /\ UNCHANGED notH

\* refresh_remote_db whose failed fetch leaves the default (empty) database behind
RefreshRemoteFetchClears(p) ==
    /\ pc[p] = "rr_fetch"
    /\ \E ok \in BOOLEAN :
          IF ok
          THEN /\ \E fetched \in RemoteSnapshots : remote_db' = fetched
               /\ toggle_fs_watch(p, TRUE)
               /\ Return(p, "Ok", 166)
          ELSE /\ remote_db' = {}
               /\ Return(p, "Err", 161)
               /\ UNCHANGED fs_events
    /\ UNCHANGED <<unique_name, names_arg, unique_names, seen,
                   mods_in_progress, local_db>>
    /\ UNCHANGED notH

\* RemoteDatabase::fetch(..).await?; *db = remote_db; REMOTE-REFRESH;
\* toggle_fs_watch(true); Ok(())
RefreshRemoteFetch(p) ==
    /\ pc[p] = "rr_fetch"
    /\ \E ok \in BOOLEAN :
          IF ok
          THEN /\ \E fetched \in RemoteSnapshots : remote_db' = fetched
               /\ toggle_fs_watch(p, TRUE)
               /\ Return(p, "Ok", 166)
          ELSE /\ Return(p, "Err", 161)
               /\ UNCHANGED <<remote_db, fs_events>>
    /\ UNCHANGED <<unique_name, names_arg, unique_names, seen,
                   mods_in_progress, local_db>>
    /\ UNCHANGED notH

(***************************************************************************)
(* run_game, up to the configuration it saves                              *)
(***************************************************************************)
\* config.read().await.clone()
RunGameConf(p) ==
    /\ Idle(p)
    /\ CanRead("config")
    /\ Goto(p, "rg_db")
    /\ UNCHANGED <<unique_name, names_arg, unique_names, result, seen, readers, writer,
                   mods_in_progress, local_db, remote_db, fs_events>>
    /\ UNCHANGED notH

\* local_db.read(); show_warnings(..)?; new_config.save()?
RunGameLocal(p) ==
    /\ pc[p] = "rg_db"
    /\ CanRead("local_db")
    /\ \E ok \in BOOLEAN :
          IF ok
          THEN /\ readers' = AcquireRead(p, "local_db", readers)
               /\ Goto(p, "rg_conf")
               /\ UNCHANGED <<result, writer>>
          ELSE Return(p, "Err", 532)
    /\ UNCHANGED <<unique_name, names_arg, unique_names, seen,
                   mods_in_progress, local_db, remote_db, fs_events>>
    /\ UNCHANGED notH

\* config.write(), with the local_db read guard held; *config = new_config; both
\* guards dropped; the handler goes on to start the log server
RunGameWriteConf(p) ==
    /\ pc[p] = "rg_conf"
    /\ CanWrite("config")
    /\ Goto(p, "rg_server")
    /\ DropAll(p)
    /\ UNCHANGED <<unique_name, names_arg, unique_names, result, seen,
                   mods_in_progress, local_db, remote_db, fs_events>>
    /\ UNCHANGED notH

(***************************************************************************)
(* get_remote_mods / get_local_mods: two passes over the database          *)
(***************************************************************************)
\* remote_db.read(); db.mods.values().filter(..).collect()
GetRemoteModsCollect(p) ==
    /\ Idle(p)
    /\ CanRead("remote_db")
    /\ readers' = AcquireRead(p, "remote_db", readers)
    /\ seen' = [seen EXCEPT ![p] = remote_db]
    /\ Goto(p, "grm_map")
    /\ UNCHANGED <<unique_name, names_arg, unique_names, result, writer,
                   mods_in_progress, local_db, remote_db, fs_events>>
    /\ UNCHANGED notH

\* mods.into_iter().map(|m| m.unique_name.clone()).collect()
GetRemoteModsMap(p) ==
    /\ pc[p] = "grm_map"
    /\ pc' = [pc EXCEPT ![p] = "done"]
    /\ result' = [result EXCEPT ![p] =
            [val |-> (seen[p] \cap remote_db) \ {OWML_UNIQUE_NAME}, line |-> 182]]
    /\ DropAll(p)
    /\ UNCHANGED <<unique_name, names_arg, unique_names, seen,
                   mods_in_progress, local_db, remote_db, fs_events>>
    /\ UNCHANGED notH

\* local_db.read(); db.all().collect()
GetLocalModsCollect(p) ==
    /\ Idle(p)
    /\ CanRead("local_db")
    /\ readers' = AcquireRead(p, "local_db", readers)
    /\ seen' = [seen EXCEPT ![p] = local_db]
    /\ Goto(p, "glm_map")
    /\ UNCHANGED <<unique_name, names_arg, unique_names, result, writer,
                   mods_in_progress, local_db, remote_db, fs_events>>
    /\ UNCHANGED notH

\* mods.into_iter().map(|m| m.get_unique_name().clone()).collect()
GetLocalModsMap(p) ==
    /\ pc[p] = "glm_map"
    /\ pc' = [pc EXCEPT ![p] = "done"]
    /\ result' = [result EXCEPT ![p] = [val |-> seen[p].mods \cap local_db.mods, line |-> 129]]
    /\ DropAll(p)
    /\ UNCHANGED <<unique_name, names_arg, unique_names, seen,
                   mods_in_progress, local_db, remote_db, fs_events>>
    /\ UNCHANGED notH

(***************************************************************************)
(* The handlers that share the configuration and database locks            *)
(***************************************************************************)
\* main.rs:60-61: remote_db starts as RemoteDatabase::default()
InitLocks ==
    /\ InitHandlers /\ NoParse /\ NoBar /\ NoToggle /\ NoLogs /\ NoProtocol
    /\ local_db \in LocalSnapshots
    /\ remote_db = {}

NextLocks ==
    \E p \in Procs :
        \/ InitialSetupConfig(p) \/ InitialSetupGui(p)
        \/ StartLogsGameLog(p) \/ StartLogsGui(p) \/ StartLogsConf(p)
        \/ StartLogsConf2(p) \/ StartLogsLaunch(p)
        \/ RefreshLocalConf(p) \/ RefreshLocalLock(p) \/ RefreshLocalFetch(p)
        \/ SpawnedLock(p) \/ SpawnedValidate(p)
        \/ RefreshRemoteConf(p) \/ RefreshRemoteLock(p) \/ RefreshRemoteFetch(p)
        \/ RunGameConf(p) \/ RunGameLocal(p) \/ RunGameWriteConf(p)
        \/ GetRemoteModsCollect(p) \/ GetRemoteModsMap(p)
        \/ GetLocalModsCollect(p) \/ GetLocalModsMap(p)

SpecLocks == InitLocks /\ [][NextLocks]_vars

(***************************************************************************)
(* Properties of the busy set                                              *)
(***************************************************************************)
Done(p) == pc[p] = "done"

ReturnedAt(p, lines) == Done(p) /\ result[p].line \in lines

\* handler q holds a busy mark on name n that it has not taken back yet
HasMark(q, n) ==
    \/ /\ pc[q] \in {"im_read", "im_installing", "im_unmark",
                      "um_read", "um_installing", "um_unmark"}
       /\ unique_name[q] = n
    \/ /\ pc[q] \in {"ua_installing", "ua_clear"}
       /\ contains(unique_names[q], n)

OthersMark(p, n) == \E q \in Procs \ {p} : HasMark(q, n)

Installing(p) == pc[p] \in {"im_installing", "um_installing"}

\* C1: when install_mod or update_mod has marked a name busy and its install step
\* fails, the handler returns with that name removed from mods_in_progress (no other
\* handler holding a mark on it).
C1_BusyReleasedOnError ==
    \A p \in Procs :
        (ReturnedAt(p, {266, 453, 455, 465}) /\ result[p].val = "Err"
            /\ ~OthersMark(p, unique_name[p]))
        => ~contains(mods_in_progress, unique_name[p])

\* C2: when the user declines the reinstall dialog, install_mod returns with the name
\* no longer in mods_in_progress, so get_mod_busy is false for it.
C2_BusyReleasedOnDecline ==
    \A p \in Procs :
        (ReturnedAt(p, {255}) /\ ~OthersMark(p, unique_name[p]))
        => ~contains(mods_in_progress, unique_name[p])

\* C3: of two concurrent single-mod operations on the same unique name only one
\* performs the download/extract sequence: they are never both inside the install.
C3_OneInstallPerName ==
    \A p, q \in Procs :
        (p # q /\ Installing(p) /\ Installing(q)) => unique_name[p] # unique_name[q]

\* C4: update_all_mods filters and adds under one held write guard: between the filter
\* and the add the busy set is what the filter read (the batch is exactly the argument's
\* names that are not busy), and the add puts every name of the batch into the busy set
\* before the batch is handed to install_mods_parallel.
C4_FilterAddAtomic ==
    /\ [](\A p \in Procs :
            pc[p] = "ua_extend" =>
                /\ writer["mods_in_progress"] = p
                /\ unique_names[p] = FilterBusy(names_arg[p], mods_in_progress))
    /\ [][\A p \in Procs :
            (pc[p] = "ua_extend" /\ pc'[p] = "ua_installing") =>
                /\ \A n \in Range(names_arg[p]) :
                      contains(unique_names[p], n) <=> ~contains(mods_in_progress, n)
                /\ \A n \in Names :
                      Count(mods_in_progress', n)
                          = Count(mods_in_progress, n) + Count(unique_names[p], n)]_vars

\* a batch was handed to install_mods_parallel after a busy name was filtered out of it
\* and the other name was added
C4_Witness ==
    \E p, q \in Procs :
        /\ pc[p] = "ua_installing"
        /\ unique_names[p] = <<OWML_UNIQUE_NAME>>
        /\ pc[q] = "im_installing" /\ unique_name[q] = "Mod.A"
        /\ mods_in_progress = <<"Mod.A", OWML_UNIQUE_NAME>>

\* C5: when update_all_mods has returned, with Ok or with an error, no name of its
\* batch is left in mods_in_progress by it, and every mark of another handler is
\* still there.
C5_BatchClearsExactlyItsOwn ==
    \A p \in Procs :
        ReturnedAt(p, {491, 496}) =>
            /\ \A n \in Range(unique_names[p]) :
                  ~OthersMark(p, n) => ~contains(mods_in_progress, n)
            /\ \A n \in Names :
                  OthersMark(p, n) => contains(mods_in_progress, n)

(***************************************************************************)
(* Properties of the shared locks and of the database snapshots            *)
(***************************************************************************)
NoWant == [lock |-> "-", mode |-> "-"]

\* the guard handler p is waiting for at its current await
Wanted(p) ==
    CASE pc[p] = "is_gui" -> [lock |-> "gui_config", mode |-> "write"]
      [] pc[p] = "sl_gui" -> [lock |-> "gui_config", mode |-> "read"]
      [] pc[p] \in {"sl_conf", "sl_conf2"} -> [lock |-> "config", mode |-> "read"]
      [] pc[p] \in {"rl_db", "rl_spawned"} -> [lock |-> "local_db", mode |-> "write"]
      [] pc[p] = "rl_validate" -> [lock |-> "remote_db", mode |-> "read"]
      [] pc[p] = "rr_db" -> [lock |-> "remote_db", mode |-> "write"]
      [] pc[p] = "rg_db" -> [lock |-> "local_db", mode |-> "read"]
      [] pc[p] = "rg_conf" -> [lock |-> "config", mode |-> "write"]
      [] OTHER -> NoWant

\* q holds a guard that keeps p from getting the one it waits for
Blocks(q, p) ==
    /\ Wanted(p) # NoWant
    /\ \/ writer[Wanted(p).lock] = q
       \/ Wanted(p).mode = "write" /\ q \in readers[Wanted(p).lock]

\* C6: no two handlers each hold a lock while waiting for a lock the other holds.
C6_NoLockCycle ==
    \A p, q \in Procs : p # q => ~(Blocks(q, p) /\ Blocks(p, q))

\* C7: while refresh_remote_db / refresh_local_db fetches, and while a reader is between
\* its two passes, the database is the snapshot found when the guard was taken; a
\* failed fetch returns the error with that snapshot still in place; and a database is
\* only ever replaced by the holder of its write guard while no reader holds a guard.
C7_RefreshAtomic ==
    /\ [](\A p \in Procs :
            /\ pc[p] \in {"rr_fetch", "grm_map"} => remote_db = seen[p]
            /\ pc[p] \in {"rl_fetch", "glm_map"} => local_db = seen[p])
    /\ [][/\ \A p \in Procs :
               /\ (pc[p] = "rr_fetch" /\ result'[p].val = "Err") => remote_db' = seen[p]
               /\ (pc[p] = "rl_fetch" /\ result'[p].val = "Err") => local_db' = seen[p]
          /\ remote_db' # remote_db =>
               writer["remote_db"] # NoProc /\ readers["remote_db"] = {}
          /\ local_db' # local_db =>
               writer["local_db"] # NoProc /\ readers["local_db"] = {}]_vars

\* a refresh_remote_db has failed after an earlier one had filled the database
C7_Witness ==
    \E p \in Procs : ReturnedAt(p, {161}) /\ result[p].val = "Err" /\ remote_db = Names

(***************************************************************************)
(* The progress protocol (owmods_core/src/progress.rs).  A string is a     *)
(* sequence of atoms: "|", the decimal digits, "+", and words that stand   *)
(* for runs of other characters.                                           *)
(***************************************************************************)
RECURSIVE Pow2(_)
Pow2(n) == IF n = 0 THEN 1 ELSE 2 * Pow2(n - 1)

\* ProgressValue::MAX
MaxValue == Pow2(ValueBits) - 1

Digits == <<"0", "1", "2", "3", "4", "5", "6", "7", "8", "9">>

IsDigit(c) == \E i \in 1..10 : Digits[i] = c

DigitVal(c) == (CHOOSE i \in 1..10 : Digits[i] = c) - 1

RECURSIVE FmtNum(_)
\* Display for ProgressValue: decimal, no sign, no leading zeros
FmtNum(n) == IF n < 10 THEN <<Digits[n + 1]>> ELSE FmtNum(n \div 10) \o <<Digits[(n % 10) + 1]>>

NoValue == -1

RECURSIVE ParseDigits(_, _)
\* the digits of s appended to acc; NoValue on a non-digit or when the value overflows
ParseDigits(s, acc) ==
    IF s = <<>> THEN acc
    ELSE IF ~IsDigit(Head(s)) THEN NoValue
    ELSE IF acc * 10 + DigitVal(Head(s)) > MaxValue THEN NoValue
    ELSE ParseDigits(Tail(s), acc * 10 + DigitVal(Head(s)))

\* str::parse::<ProgressValue>(): an optional '+', then at least one digit
ParseValue(s) ==
    LET digits == IF s # <<>> /\ Head(s) = "+" THEN Tail(s) ELSE s
    IN  IF digits = <<>> THEN NoValue ELSE ParseDigits(digits, 0)

\* str::split_once('|')
split_once(s) ==
    IF \E i \in 1..Len(s) : s[i] = "|"
    THEN LET i == CHOOSE i \in 1..Len(s) : s[i] = "|" /\ \A j \in 1..(i - 1) : s[j] # "|"
         IN  [found |-> TRUE, l |-> SubSeq(s, 1, i - 1), r |-> SubSeq(s, i + 1, Len(s))]
    ELSE [found |-> FALSE, l |-> <<>>, r |-> <<>>]

ProgressType_parse(s) == IF s = <<"Definite">> THEN "Definite" ELSE "Indefinite"

ProgressAction_parse(s) ==
    IF s = <<"Download">> THEN "Download"
    ELSE IF s = <<"Extract">> THEN "Extract"
    ELSE "Download"

Unknown == [kind |-> "Unknown"]

\* an unwrap() on None or on Err: the call does not return
Panicked == [kind |-> "panic"]

\* the "Start" arm of the match
parse_start(id, args) ==
    LET a == split_once(args)
        b == split_once(a.r)
        c == split_once(b.r)
    IN  IF ~a.found \/ ~b.found \/ ~c.found \/ ParseValue(a.l) = NoValue
        THEN Panicked
        ELSE [kind |-> "Start", id |-> id, msg |-> c.r,
              progress_action |-> ProgressAction_parse(c.l),
              progress_type |-> ProgressType_parse(b.l),
              len |-> ParseValue(a.l)]

\* a "Finish" arm that takes the message up to the next '|'
parse_finish_splits_msg(id, args) ==
    LET a == split_once(args)
        b == split_once(a.r)
    IN  IF ~a.found THEN Panicked
        ELSE [kind |-> "Finish", id |-> id, success |-> (a.l = <<"true">>),
              msg |-> IF b.found THEN b.l ELSE a.r]

\* the "Finish" arm of the match
parse_finish(id, args) ==
    LET a == split_once(args)
    IN  IF ~a.found THEN Panicked
        ELSE [kind |-> "Finish", id |-> id, success |-> (a.l = <<"true">>), msg |-> a.r]

\* a match whose default arm unwraps like the others
parse_match_strict(action, id, args) ==
    CASE action = <<"Start">> -> parse_start(id, args)
      [] action = <<"Increment">> ->
            IF ParseValue(args) = NoValue THEN Panicked
            ELSE [kind |-> "Increment", id |-> id, progress |-> ParseValue(args)]
      [] action = <<"Msg">> -> [kind |-> "Msg", id |-> id, msg |-> args]
      [] action = <<"Finish">> -> parse_finish(id, args)
      [] OTHER -> Panicked

\* match action { .. }
parse_match(action, id, args) ==
    CASE action = <<"Start">> -> parse_start(id, args)
      [] action = <<"Increment">> ->
            IF ParseValue(args) = NoValue THEN Panicked
            ELSE [kind |-> "Increment", id |-> id, progress |-> ParseValue(args)]
      [] action = <<"Msg">> -> [kind |-> "Msg", id |-> id, msg |-> args]
      [] action = <<"Finish">> -> parse_finish(id, args)
      [] OTHER -> Unknown

\* ProgressPayload::parse
parse(s) ==
    LET a == split_once(s)
        b == split_once(a.r)
    IN  IF ~a.found \/ ~b.found THEN Panicked ELSE parse_match(a.l, b.l, b.r)

(***************************************************************************)
(* Parsing one line                                                        *)
(***************************************************************************)
KindFields == {<<"Start">>, <<"Increment">>, <<"Msg">>, <<"Finish">>, <<"x">>, <<>>}

IdFields == {<<"a">>, <<>>}

ArgFields == {<<>>, <<"7">>, <<"+", "7">>, <<"9", "9">>, <<"true">>, <<"Definite">>}

RECURSIVE Join(_)
\* the fields with a '|' between each two
Join(fields) ==
    IF fields = <<>> THEN <<>>
    ELSE IF Len(fields) = 1 THEN fields[1]
    ELSE fields[1] \o <<"|">> \o Join(Tail(fields))

\* the field vectors lines are built from: a kind, an id, arguments
FieldVectors ==
    {<<kind>> : kind \in KindFields}
    \cup {<<kind, id>> \o args : kind \in KindFields, id \in IdFields,
                                  args \in SeqsUpTo(ArgFields, MaxFields - 2)}

\* a Start line whose message contains '|'
LongLines == {Join(<<<<"Start">>, <<"a">>, <<"7">>, <<"Definite">>, <<"Extract">>, <<"m">>, <<"m">>>>)}

Lines == {Join(f) : f \in FieldVectors} \cup LongLines

NotParsed == [kind |-> "NotParsed"]

InitParse ==
    /\ NoHandlers /\ NoBar /\ NoToggle /\ NoLogs /\ NoProtocol
    /\ input \in Lines
    /\ payload = NotParsed
    /\ decoded = <<>>

ParseLine ==
    /\ payload = NotParsed
    /\ payload' = parse(input)
    /\ UNCHANGED <<input, decoded, notP>>

NextParse == ParseLine

SpecParse == InitParse /\ [][NextParse]_vars

(***************************************************************************)
(* ProgressBar: the emitting side of the progress protocol                 *)
(***************************************************************************)
Ids == {<<"a">>}

Lens == {0, 2, MaxValue}

Amounts == {0, 1, MaxValue - 1, MaxValue}

Msgs == {<<>>, <<"m">>, <<"m", "|", "n">>}

FailureMessages == {<<"f">>}

\* (progress_type, progress_action) as their Debug output
BarKinds == {<<"Definite", "Download">>, <<"Indefinite", "Extract">>}

\* a bool written as its capitalised name
FmtBoolCapital(b) == IF b THEN <<"True">> ELSE <<"False">>

\* Display for bool
FmtBool(b) == IF b THEN <<"true">> ELSE <<"false">>

\* "Start|{}|{}|{:?}|{:?}|{}"
FmtStart(id, len, progress_type, progress_action, msg) ==
    <<"Start", "|">> \o id \o <<"|">> \o FmtNum(len) \o <<"|", progress_type, "|", progress_action, "|">> \o msg

\* "Increment|{}|{}"
FmtIncrement(id, progress) == <<"Increment", "|">> \o id \o <<"|">> \o FmtNum(progress)

\* "Msg|{}|{}"
FmtMsg(id, msg) == <<"Msg", "|">> \o id \o <<"|">> \o msg

\* "Finish|{}|{}|{}"
FmtFinish(id, success, msg) == <<"Finish", "|">> \o id \o <<"|">> \o FmtBool(success) \o <<"|">> \o msg

\* ProgressBar::new: the bar and the Start line it logs
new(id, len, msg, failure_message, progress_type, progress_action) ==
    /\ bar = [id |-> id, len |-> len, progress |-> 0,
              failure_message |-> failure_message, complete |-> FALSE]
    /\ emitted = <<FmtStart(id, len, progress_type, progress_action, msg)>>

\* progress + amount in ProgressValue, as a build without overflow checks computes it
wrapping_add(a, b) == (a + b) % Pow2(ValueBits)

Overflows(a, b) == a + b > MaxValue

\* the value inc assigns, without the comparison with len
inc_unclamped(progress, amount, len) == wrapping_add(progress, amount)

\* the value inc assigns to self.progress
inc_progress(progress, amount, len) ==
    IF wrapping_add(progress, amount) >= len THEN len ELSE wrapping_add(progress, amount)

\* ProgressBar::finish
finish(success, msg) ==
    /\ bar' = [bar EXCEPT !.complete = TRUE]
    /\ emitted' = Append(emitted, FmtFinish(bar.id, success, IF success THEN msg ELSE bar.failure_message))

\* a drop that finishes the bar whether or not it is complete
drop_always_finishes ==
    /\ alive' = FALSE
    /\ finish(FALSE, <<>>)

\* Drop for ProgressBar
drop ==
    /\ alive' = FALSE
    /\ IF ~bar.complete THEN finish(FALSE, <<>>) ELSE UNCHANGED <<bar, emitted>>

MoreOps == alive /\ Len(emitted) <= MaxOps

\* inc, progress + amount within ProgressValue
Inc ==
    /\ MoreOps
    /\ \E amount \in Amounts :
        /\ ~Overflows(bar.progress, amount)
        /\ bar' = [bar EXCEPT !.progress = inc_progress(bar.progress, amount, bar.len)]
        /\ emitted' = Append(emitted, FmtIncrement(bar.id, bar'.progress))
    /\ UNCHANGED <<alive, finish_calls, notB>>

\* inc, progress + amount beyond ProgressValue::MAX, in a build without overflow checks
IncWraps ==
    /\ MoreOps
    /\ \E amount \in Amounts :
        /\ Overflows(bar.progress, amount)
        /\ bar' = [bar EXCEPT !.progress = inc_progress(bar.progress, amount, bar.len)]
        /\ emitted' = Append(emitted, FmtIncrement(bar.id, bar'.progress))
    /\ UNCHANGED <<alive, finish_calls, notB>>

\* inc, progress + amount beyond ProgressValue::MAX, in a build with overflow checks: the
\* addition panics and the unwinding drops the bar
IncPanics ==
    /\ MoreOps
    /\ \E amount \in Amounts : Overflows(bar.progress, amount)
    /\ drop
    /\ UNCHANGED <<finish_calls, notB>>

SetMsg ==
    /\ MoreOps
    /\ \E msg \in Msgs : emitted' = Append(emitted, FmtMsg(bar.id, msg))
    /\ UNCHANGED <<bar, alive, finish_calls, notB>>

Finish ==
    /\ MoreOps
    /\ \E success \in BOOLEAN, msg \in Msgs : finish(success, msg)
    /\ finish_calls' = finish_calls + 1
    /\ UNCHANGED <<alive, notB>>

\* the owner lets go of the bar
Drop ==
    /\ alive
    /\ drop
    /\ UNCHANGED <<finish_calls, notB>>

InitBar ==
    /\ NoHandlers
    /\ NoParse
    /\ NoToggle
    /\ NoLogs /\ NoProtocol
    /\ alive = TRUE
    /\ finish_calls = 0
    /\ \E id \in Ids, len \in Lens, msg \in Msgs, failure_message \in FailureMessages, k \in BarKinds :
        new(id, len, msg, failure_message, k[1], k[2])

NextBar == Inc \/ IncWraps \/ IncPanics \/ SetMsg \/ Finish \/ Drop

SpecBar == InitBar /\ [][NextBar]_vars

(***************************************************************************)
(* Decoding the lines of a progress channel one after the other            *)
(***************************************************************************)
DecodeIds == {<<"a">>, <<"b">>}

\* the Start and Increment lines a channel can carry
DecodeLines ==
    {FmtStart(id, len, k[1], k[2], msg) :
        id \in DecodeIds, len \in Lens, k \in BarKinds, msg \in {<<"m">>}}
    \cup {FmtIncrement(id, v) : id \in DecodeIds, v \in 0..MaxValue}

\* the consumer hands the next line of the channel to ProgressPayload::parse
DecodeLine ==
    /\ Len(decoded) < MaxDecoded
    /\ \E line \in DecodeLines :
        /\ input' = line
        /\ payload' = parse(line)
    /\ decoded' = IF payload = NotParsed THEN decoded ELSE Append(decoded, payload)
    /\ UNCHANGED notP

InitDecode == NoHandlers /\ NoBar /\ NoToggle /\ NoLogs /\ NoProtocol /\ NoParse /\ payload = NotParsed

NextDecode == DecodeLine

SpecDecode == InitDecode /\ [][NextDecode]_vars

(***************************************************************************)
(* toggle.rs: enabling and disabling mods through their config.json        *)
(***************************************************************************)
\* the mods of the local database; each has a directory of its own
ToggleMods == {"A", "B", "C", "D"}

\* the mods the outermost call is made for
CallMods == {"A", "B"}

\* a dependency name that resolves to no local mod
Unresolved == "X"

\* is_file() is false
NoFile == [kind |-> "absent"]

\* a file deserialize_from_json fails on
Malformed == [kind |-> "malformed"]

NoSettings == "None"

\* a JSON file: the two fields of ModStubConfig, and whether it has other top-level keys
Json(enabled, settings, extra) ==
    [kind |-> "json", enabled |-> enabled, settings |-> settings, extra |-> extra]

\* read_config: the ModStubConfig in the file (keys it does not declare are ignored)
read_config(file) ==
    IF file.kind = "json"
    THEN [ok |-> TRUE, conf |-> [enabled |-> file.enabled, settings |-> file.settings]]
    ELSE [ok |-> FALSE, conf |-> [enabled |-> FALSE, settings |-> NoSettings]]

\* a write_config that serializes the enabled field only
write_config_without_settings(conf) == Json(conf.enabled, NoSettings, FALSE)

\* write_config: the file holds the serialized ModStubConfig and nothing else
write_config(conf) == Json(conf.enabled, conf.settings, FALSE)

\* a copy_default_config that makes up a configuration when there is no default
copy_default_config_invents(fs, mod) ==
    LET default_config == read_config(fs[mod].default)
    IN  IF fs[mod].default # NoFile /\ default_config.ok
        THEN [ok |-> TRUE, files |-> [fs EXCEPT ![mod].config = write_config(default_config.conf)]]
        ELSE [ok |-> TRUE, files |-> [fs EXCEPT ![mod].config = Json(FALSE, NoSettings, FALSE)]]

\* copy_default_config
copy_default_config(fs, mod) ==
    LET default_config == read_config(fs[mod].default)
    IN  IF fs[mod].default # NoFile /\ default_config.ok
        THEN [ok |-> TRUE, files |-> [fs EXCEPT ![mod].config = write_config(default_config.conf)]]
        ELSE [ok |-> FALSE, files |-> fs]

\* get_mod_enabled
get_mod_enabled(fs, mod) ==
    IF fs[mod].config # NoFile
    THEN IF read_config(fs[mod].config).ok
         THEN [val |-> "Ok", enabled |-> read_config(fs[mod].config).conf.enabled]
         ELSE [val |-> "Err", enabled |-> FALSE]
    ELSE [val |-> "Ok", enabled |-> FALSE]

\* A depends on B and on a mod that is not installed, B depends on C; D stands alone
Chain ==
    [m \in ToggleMods |->
        CASE m = "A" -> <<"B", Unresolved>> [] m = "B" -> <<"C">> [] OTHER -> <<>>]

\* A depends on B and B depends on A
Cycle ==
    [m \in ToggleMods |->
        CASE m = "A" -> <<"B">> [] m = "B" -> <<"A">> [] OTHER -> <<>>]

Graphs == {Chain, Cycle}

ConfigFiles == {NoFile, Malformed, Json(TRUE, "s", FALSE), Json(FALSE, NoSettings, TRUE)}

DefaultFiles == {NoFile, Json(TRUE, "s", FALSE), Json(FALSE, NoSettings, FALSE)}

\* the directories the mods can be found in
FileSystems ==
    {fs \in [ToggleMods -> [config : ConfigFiles, default : DefaultFiles]] :
        /\ fs["B"] \in {[config |-> Json(FALSE, NoSettings, TRUE), default |-> NoFile],
                        [config |-> NoFile, default |-> Json(TRUE, "s", FALSE)],
                        [config |-> NoFile, default |-> NoFile],
                        [config |-> Malformed, default |-> NoFile]}
        /\ fs["C"] \in {[config |-> Json(TRUE, "s", FALSE), default |-> NoFile],
                        [config |-> NoFile, default |-> Json(FALSE, NoSettings, FALSE)]}
        /\ fs["D"] = [config |-> Json(TRUE, "s", FALSE), default |-> NoFile]}

NoCall == [mod |-> "-", enabled |-> FALSE, recursive |-> FALSE]

\* a new activation of toggle_mod for the directory of mod
Frame(mod) == [mod |-> mod, pc |-> "entry", i |-> 0]

\* the innermost activation
Top == stack[Len(stack)]

SetTop(frame) == [stack EXCEPT ![Len(stack)] = frame]

\* the activation once its config.json is dealt with: at `if recursive`
AfterConfig(frame) ==
    IF tcall.recursive THEN [frame EXCEPT !.pc = "deps", !.i = 1]
    ELSE [frame EXCEPT !.pc = "ret"]

\* a `?` on an Err: every caller passes it on with its own `?`
Fail(line) ==
    /\ stack' = <<>>
    /\ tresult' = [val |-> "Err", line |-> line]

\* toggle_mod calls itself for the directory of mod; the caller goes on as `caller` when
\* the call returns. A call the stack has no room for ends the process.
CallToggle(caller, mod) ==
    IF Len(stack) >= MaxDepth
    THEN /\ stack' = <<>>
         /\ tresult' = [val |-> "StackOverflow", line |-> 52]
    ELSE /\ stack' = Append(SetTop(caller), Frame(mod))
         /\ UNCHANGED tresult

\* the outermost call of toggle_mod; a later call is for the same mod and recursive flag
ToggleCall ==
    /\ stack = <<>>
    /\ tcalls < MaxCalls
    /\ tresult.val # "StackOverflow"
    /\ \E mod \in CallMods, enabled \in BOOLEAN, recursive \in BOOLEAN :
        /\ tcalls > 0 => (mod = tcall.mod /\ recursive = tcall.recursive)
        /\ tcall' = [mod |-> mod, enabled |-> enabled, recursive |-> recursive]
        /\ stack' = <<Frame(mod)>>
    /\ tresult' = NoResult
    /\ tcalls' = tcalls + 1
    /\ files_at_call' = files
    /\ tprev' = [call |-> tcall, result |-> tresult, files |-> files]
    /\ UNCHANGED <<files, manifests, notT>>

\* an existing config.json whose flag is inverted instead of set
ToggleExistingFlips ==
    /\ stack # <<>>
    /\ Top.pc = "entry"
    /\ files[Top.mod].config # NoFile
    /\ LET config == read_config(files[Top.mod].config)
       IN  IF ~config.ok
           THEN Fail(60) /\ UNCHANGED files
           ELSE /\ files' = [files EXCEPT ![Top.mod].config =
                                write_config([config.conf EXCEPT !.enabled = ~config.conf.enabled])]
                /\ stack' = SetTop(AfterConfig(Top))
                /\ UNCHANGED tresult
    /\ UNCHANGED <<manifests, tcall, tcalls, files_at_call, tprev, notT>>

\* config.json is a file: read it, set enabled, write it
ToggleExisting ==
    /\ stack # <<>>
    /\ Top.pc = "entry"
    /\ files[Top.mod].config # NoFile
    /\ LET config == read_config(files[Top.mod].config)
       IN  IF ~config.ok
           THEN Fail(60) /\ UNCHANGED files
           ELSE /\ files' = [files EXCEPT ![Top.mod].config =
                                write_config([config.conf EXCEPT !.enabled = tcall.enabled])]
                /\ stack' = SetTop(AfterConfig(Top))
                /\ UNCHANGED tresult
    /\ UNCHANGED <<manifests, tcall, tcalls, files_at_call, tprev, notT>>

\* a fresh mod whose config.json is copied from the default and left as copied
ToggleFreshKeepsDefault ==
    /\ stack # <<>>
    /\ Top.pc = "entry"
    /\ files[Top.mod].config = NoFile
    /\ LET copied == copy_default_config(files, Top.mod)
       IN  IF ~copied.ok
           THEN Fail(64) /\ UNCHANGED files
           ELSE /\ files' = copied.files
                /\ stack' = SetTop(AfterConfig(Top))
                /\ UNCHANGED tresult
    /\ UNCHANGED <<manifests, tcall, tcalls, files_at_call, tprev, notT>>

\* config.json is no file: copy_default_config(mod_path)?, then toggle_mod again
ToggleFresh ==
    /\ stack # <<>>
    /\ Top.pc = "entry"
    /\ files[Top.mod].config = NoFile
    /\ LET copied == copy_default_config(files, Top.mod)
       IN  IF ~copied.ok
           THEN Fail(64) /\ UNCHANGED files
           ELSE /\ files' = copied.files
                /\ CallToggle(AfterConfig(Top), Top.mod)
    /\ UNCHANGED <<manifests, tcall, tcalls, files_at_call, tprev, notT>>

\* a loop over the dependencies that toggles each without its own dependencies
ToggleDepShallow ==
    /\ stack # <<>>
    /\ Top.pc = "deps"
    /\ Top.i <= Len(manifests[Top.mod])
    /\ LET dep == manifests[Top.mod][Top.i]
           next == [Top EXCEPT !.i = @ + 1]
       IN  IF dep \in local_db.mods /\ Len(stack) = 1
           THEN CallToggle(next, dep)
           ELSE stack' = SetTop(next) /\ UNCHANGED tresult
    /\ UNCHANGED <<files, manifests, tcall, tcalls, files_at_call, tprev, notT>>

\* for dep in deps.iter(): toggle_mod for the dependency if local_db.get_mod finds it
ToggleDep ==
    /\ stack # <<>>
    /\ Top.pc = "deps"
    /\ Top.i <= Len(manifests[Top.mod])
    /\ LET dep == manifests[Top.mod][Top.i]
           next == [Top EXCEPT !.i = @ + 1]
       IN  IF dep \in local_db.mods
           THEN CallToggle(next, dep)
           ELSE stack' = SetTop(next) /\ UNCHANGED tresult
    /\ UNCHANGED <<files, manifests, tcall, tcalls, files_at_call, tprev, notT>>

\* Ok(()): the activation returns to its caller
ToggleReturn ==
    /\ stack # <<>>
    /\ \/ Top.pc = "ret"
       \/ Top.pc = "deps" /\ Top.i > Len(manifests[Top.mod])
    /\ stack' = SubSeq(stack, 1, Len(stack) - 1)
    /\ tresult' = IF Len(stack) = 1 THEN [val |-> "Ok", line |-> 83] ELSE tresult
    /\ UNCHANGED <<files, manifests, tcall, tcalls, files_at_call, tprev, notT>>

InitToggle ==
    /\ InitHandlers /\ NoParse /\ NoBar /\ NoLogs /\ NoProtocol
    /\ local_db = [mods |-> ToggleMods, updates |-> {}]
    /\ remote_db = {}
    /\ files \in FileSystems
    /\ manifests \in Graphs
    /\ stack = <<>>
    /\ tcall = NoCall
    /\ tresult = NoResult
    /\ tcalls = 0
    /\ files_at_call = files
    /\ tprev = [call |-> NoCall, result |-> NoResult, files |-> files]

NextToggle == ToggleCall \/ ToggleExisting \/ ToggleFresh \/ ToggleDep \/ ToggleReturn

SpecToggle == InitToggle /\ [][NextToggle]_vars

(***************************************************************************)
(* Log sessions: run_game's log_handler, clear_logs and the close handler  *)
(***************************************************************************)
\* the ports of the log servers of two running games
Ports == {1, 2}

\* SocketMessageType, as far as log_handler tells the types apart
MsgTypes == {"Info", "Fatal"}

NoMsg == [n |-> 0, type |-> "-"]

\* the n-th message the game sent to a session
Msg(n, type) == [n |-> n, type |-> type]

\* the session is in State::game_log
IsOpen(port) == port \in DOMAIN game_log

LogEvent(name, port, n) == [name |-> name, port |-> port, n |-> n]

RECURSIVE SumOver(_, _)
\* the sum of f over a set of ports
SumOver(f, ports) ==
    IF ports = {} THEN 0
    ELSE LET port == CHOOSE q \in ports : TRUE
         IN  f[port] + SumOver(f, ports \ {port})

TotalSent == SumOver([port \in Ports |-> Len(log_hist[port].sent)], Ports)

TotalClears == SumOver([port \in Ports |-> log_hist[port].clears], Ports)

\* log_server.listen(tx, ..): the next message of the game arrives and is sent on
LogSend(port) ==
    /\ TotalSent < MaxMsgs
    /\ \E type \in MsgTypes :
        LET msg == Msg(Len(log_hist[port].sent) + 1, type)
        IN  /\ chan' = [chan EXCEPT ![port] = Append(@, msg)]
            /\ log_hist' = [log_hist EXCEPT ![port].sent = Append(@, msg)]
    /\ UNCHANGED <<game_log, log_file, held, log_events, readers, writer, notL>>

\* a log_handler that takes the newest message of the channel
LogRecvNewest(port) ==
    /\ held[port] = NoMsg
    /\ chan[port] # <<>>
    /\ held' = [held EXCEPT ![port] = chan[port][Len(chan[port])]]
    /\ chan' = [chan EXCEPT ![port] = SubSeq(@, 1, Len(@) - 1)]
    /\ UNCHANGED <<game_log, log_file, log_hist, log_events, readers, writer, notL>>

\* rx.recv().await
LogRecv(port) ==
    /\ held[port] = NoMsg
    /\ chan[port] # <<>>
    /\ held' = [held EXCEPT ![port] = Head(chan[port])]
    /\ chan' = [chan EXCEPT ![port] = Tail(@)]
    /\ UNCHANGED <<game_log, log_file, log_hist, log_events, readers, writer, notL>>

\* state.game_log.write().await
LogLock(port) ==
    /\ held[port] # NoMsg
    /\ writer["game_log"] # port
    /\ CanWrite("game_log")
    /\ writer' = [writer EXCEPT !["game_log"] = port]
    /\ UNCHANGED <<game_log, log_file, chan, held, log_hist, log_events, readers, notL>>

\* a log_handler that raises LOG-FATAL for every message
LogAppendAlwaysFatal(port) ==
    /\ writer["game_log"] = port
    /\ held[port] # NoMsg
    /\ LET msg == held[port]
           fatal == <<LogEvent("LOG-FATAL", port, msg.n)>>
       IN  IF IsOpen(port)
           THEN /\ \E written \in BOOLEAN :
                    /\ log_file' = [log_file EXCEPT ![port] = IF written THEN Append(@, msg) ELSE @]
                    /\ log_hist' = [log_hist EXCEPT ![port].appended = msg.n,
                                                    ![port].failed = IF written THEN @ ELSE @ \cup {msg.n}]
                /\ game_log' = [game_log EXCEPT ![port] = Append(@, msg)]
                /\ log_events' = [log_events EXCEPT
                                      ![port] = @ \o fatal \o <<LogEvent("LOG-UPDATE", port, msg.n)>>]
           ELSE UNCHANGED <<game_log, log_file, log_hist, log_events>>
    /\ held' = [held EXCEPT ![port] = NoMsg]
    /\ writer' = [writer EXCEPT !["game_log"] = NoProc]
    /\ UNCHANGED <<chan, readers, notL>>

\* the body of the loop under the guard: write_log, LOG-FATAL, lines.push, LOG-UPDATE
LogAppend(port) ==
    /\ writer["game_log"] = port
    /\ held[port] # NoMsg
    /\ LET msg == held[port]
           fatal == IF msg.type = "Fatal" THEN <<LogEvent("LOG-FATAL", port, msg.n)>> ELSE <<>>
       IN  IF IsOpen(port)
           THEN /\ \E written \in BOOLEAN :
                    /\ log_file' = [log_file EXCEPT ![port] = IF written THEN Append(@, msg) ELSE @]
                    /\ log_hist' = [log_hist EXCEPT ![port].appended = msg.n,
                                                    ![port].failed = IF written THEN @ ELSE @ \cup {msg.n}]
                /\ game_log' = [game_log EXCEPT ![port] = Append(@, msg)]
                /\ log_events' = [log_events EXCEPT
                                      ![port] = @ \o fatal \o <<LogEvent("LOG-UPDATE", port, msg.n)>>]
           ELSE UNCHANGED <<game_log, log_file, log_hist, log_events>>
    /\ held' = [held EXCEPT ![port] = NoMsg]
    /\ writer' = [writer EXCEPT !["game_log"] = NoProc]
    /\ UNCHANGED <<chan, readers, notL>>

\* a clear_logs that drops the session with its lines
ClearLogsRemoves(port) ==
    /\ CanWrite("game_log")
    /\ TotalClears < MaxClears
    /\ IF IsOpen(port)
       THEN /\ game_log' = [q \in DOMAIN game_log \ {port} |-> game_log[q]]
            /\ log_events' = [log_events EXCEPT ![port] = Append(@, LogEvent("LOG-UPDATE", 0, 0))]
            /\ log_hist' = [log_hist EXCEPT ![port].clears = @ + 1,
                                            ![port].cleared_upto = log_hist[port].appended]
       ELSE /\ log_hist' = [log_hist EXCEPT ![port].clears = @ + 1]
            /\ UNCHANGED <<game_log, log_events>>
    /\ UNCHANGED <<log_file, chan, held, readers, writer, notL>>

\* clear_logs
ClearLogs(port) ==
    /\ CanWrite("game_log")
    /\ TotalClears < MaxClears
    /\ IF IsOpen(port)
       THEN /\ game_log' = [game_log EXCEPT ![port] = <<>>]
            /\ log_events' = [log_events EXCEPT ![port] = Append(@, LogEvent("LOG-UPDATE", 0, 0))]
            /\ log_hist' = [log_hist EXCEPT ![port].clears = @ + 1,
                                            ![port].cleared_upto = log_hist[port].appended]
       ELSE /\ log_hist' = [log_hist EXCEPT ![port].clears = @ + 1]
            /\ UNCHANGED <<game_log, log_events>>
    /\ UNCHANGED <<log_file, chan, held, readers, writer, notL>>

\* the task the window's CloseRequested handler spawns: flush, logs.remove(&port)
CloseSession(port) ==
    /\ CanWrite("game_log")
    /\ IsOpen(port)
    /\ game_log' = [q \in DOMAIN game_log \ {port} |-> game_log[q]]
    /\ UNCHANGED <<log_file, chan, held, log_hist, log_events, readers, writer, notL>>

\* get_log_lines under the read guard: the indices get_logs_indices selects, or the
\* error of a port that has no session
get_log_lines(logs, port) ==
    IF port \in DOMAIN logs
    THEN [val |-> "Ok", lines |-> {i - 1 : i \in 1..Len(logs[port])}]
    ELSE [val |-> "Err", error |-> "Log Server Not Running"]

\* a get_game_message that indexes the list with lines[line]
get_game_message_indexing(logs, port, line) ==
    IF port \in DOMAIN logs
    THEN IF line < Len(logs[port])
         THEN [val |-> "Ok", msg |-> logs[port][line + 1]]
         ELSE [val |-> "panic"]
    ELSE [val |-> "Err", error |-> "Log Server Not Running"]

\* get_game_message under the read guard; line is a usize, counted from 0
get_game_message(logs, port, line) ==
    IF port \in DOMAIN logs
    THEN IF line < Len(logs[port])
         THEN [val |-> "Ok", msg |-> logs[port][line + 1]]
         ELSE [val |-> "Err", error |-> "Invalid Log Line"]
    ELSE [val |-> "Err", error |-> "Log Server Not Running"]

\* the line indices a caller asks for
LineArgs == 0..MaxMsgs

\* two games run: run_game has registered a session for each (commands.rs:561-565)
InitLogs ==
    /\ InitHandlers /\ NoParse /\ NoBar /\ NoToggle /\ NoProtocol
    /\ local_db = [mods |-> {}, updates |-> {}]
    /\ remote_db = {}
    /\ game_log = [port \in Ports |-> <<>>]
    /\ log_file = [port \in Ports |-> <<>>]
    /\ chan = [port \in Ports |-> <<>>]
    /\ held = [port \in Ports |-> NoMsg]
    /\ log_hist = [port \in Ports |->
                      [sent |-> <<>>, appended |-> 0, cleared_upto |-> 0, failed |-> {}, clears |-> 0]]
    /\ log_events = [port \in Ports |-> <<>>]

NextLogs ==
    \E port \in Ports :
        \/ LogSend(port) \/ LogRecv(port) \/ LogLock(port) \/ LogAppend(port)
        \/ ClearLogs(port) \/ CloseSession(port)

SpecLogs == InitLogs /\ [][NextLogs]_vars

(***************************************************************************)
(* The protocol URL: pop_protocol_url and the deep-link handler of main.rs *)
(***************************************************************************)
\* what ProtocolPayload::parse makes of a URL: an install request for a mod, or Unknown
Payloads == {[install_type |-> "InstallMod", payload |-> "Mod.A"],
             [install_type |-> "Unknown", payload |-> "-"]}

\* the handler registered with tauri_plugin_deep_link, which is no command invocation
DeepLinkHandler == 0

ProtocolEvent(by, call, url) == [by |-> by, call |-> call, payload |-> url]

\* the deep links that arrived while the program was running
NumLinks == Cardinality({i \in 1..Len(protocol_events) : protocol_events[i].by = DeepLinkHandler})

\* state.protocol_url.write().await
PopLock(p) ==
    /\ pc[p] \in {"idle", "done"}
    /\ pops < MaxPops
    /\ CanWrite("protocol_url")
    /\ writer' = [writer EXCEPT !["protocol_url"] = p]
    /\ pc' = [pc EXCEPT ![p] = "pop_check"]
    /\ result' = [result EXCEPT ![p] = NoResult]
    /\ pops' = pops + 1
    /\ UNCHANGED <<unique_name, names_arg, unique_names, seen, readers, mods_in_progress,
                   local_db, remote_db, fs_events, protocol_url, protocol_events>>
    /\ UNCHANGED <<pvars, bvars, tvars, lvars>>

\* if let Some(url) = protocol_url.as_ref() { emit_all("PROTOCOL_INVOKE", url) }
PopEmit(p) ==
    /\ pc[p] = "pop_check"
    /\ protocol_events' = IF protocol_url # NoUrl
                          THEN Append(protocol_events, ProtocolEvent(p, pops, protocol_url))
                          ELSE protocol_events
    /\ pc' = [pc EXCEPT ![p] = "pop_clear"]
    /\ UNCHANGED <<unique_name, names_arg, unique_names, result, seen, readers, writer,
                   mods_in_progress, local_db, remote_db, fs_events, protocol_url, pops>>
    /\ UNCHANGED <<pvars, bvars, tvars, lvars>>

\* a pop_protocol_url that leaves the URL where it is
PopClearKeeps(p) ==
    /\ pc[p] = "pop_clear"
    /\ Return(p, "Ok", 742)
    /\ UNCHANGED <<unique_name, names_arg, unique_names, seen, mods_in_progress,
                   local_db, remote_db, fs_events, protocol_url, protocol_events, pops>>
    /\ UNCHANGED <<pvars, bvars, tvars, lvars>>

\* *protocol_url = None; Ok(())
PopClear(p) ==
    /\ pc[p] = "pop_clear"
    /\ protocol_url' = NoUrl
    /\ Return(p, "Ok", 742)
    /\ UNCHANGED <<unique_name, names_arg, unique_names, seen, mods_in_progress,
                   local_db, remote_db, fs_events, protocol_events, pops>>
    /\ UNCHANGED <<pvars, bvars, tvars, lvars>>

\* the closure registered at main.rs:93: a deep link reaches the running program
DeepLink ==
    /\ NumLinks < MaxLinks
    /\ \E protocol_payload \in Payloads :
          /\ protocol_payload.install_type # "Unknown"
          /\ protocol_events' =
                 Append(protocol_events, ProtocolEvent(DeepLinkHandler, 0, protocol_payload))
    /\ UNCHANGED <<hvars, protocol_url, pops>>
    /\ UNCHANGED <<pvars, bvars, tvars, lvars>>

\* main.rs:65, 74: the first argument of the program, if any, parsed and stored
InitProtocol ==
    /\ NoHandlers /\ NoParse /\ NoBar /\ NoToggle /\ NoLogs
    /\ protocol_url \in Payloads \cup {NoUrl}
    /\ protocol_events = <<>>
    /\ pops = 0

NextProtocol ==
    \/ \E p \in Procs : PopLock(p) \/ PopEmit(p) \/ PopClear(p)
    \/ DeepLink

SpecProtocol == InitProtocol /\ [][NextProtocol]_vars

(***************************************************************************)
(* Properties of ProgressPayload::parse                                    *)
(***************************************************************************)
NumSeps(s) == Cardinality({i \in 1..Len(s) : s[i] = "|"})

RECURSIVE SplitAll(_)
\* every '|'-separated field of s
SplitAll(s) ==
    IF NumSeps(s) = 0 THEN <<s>>
    ELSE LET i == CHOOSE i \in 1..Len(s) : s[i] = "|" /\ \A j \in 1..(i - 1) : s[j] # "|"
         IN  <<SubSeq(s, 1, i - 1)>> \o SplitAll(SubSeq(s, i + 1, Len(s)))

KnownKinds == {<<"Start">>, <<"Increment">>, <<"Msg">>, <<"Finish">>}

\* a line of an unrecognized event kind, with the two separators every event has
UnrecognizedKind(s) == NumSeps(s) >= 2 /\ SplitAll(s)[1] \notin KnownKinds

\* a well-formed progress event: two separators, a known kind, the kind's fields all
\* there, its numeric field a number
WellFormed(s) ==
    LET f == SplitAll(s)
    IN  /\ Len(f) >= 3
        /\ f[1] \in KnownKinds
        /\ f[1] = <<"Start">> => Len(f) >= 6 /\ ParseValue(f[3]) # NoValue
        /\ f[1] = <<"Increment">> => Len(f) = 3 /\ ParseValue(f[3]) # NoValue
        /\ f[1] = <<"Finish">> => Len(f) >= 4

\* fields k.. of a line put together again: the remainder of the line from field k on
Rest(f, k) == Join(SubSeq(f, k, Len(f)))

\* the payload a well-formed line stands for, its fields taken in order
Expected(s) ==
    LET f == SplitAll(s)
    IN  CASE f[1] = <<"Start">> ->
                [kind |-> "Start", id |-> f[2], len |-> ParseValue(f[3]),
                 progress_type |-> ProgressType_parse(f[4]),
                 progress_action |-> ProgressAction_parse(f[5]), msg |-> Rest(f, 6)]
          [] f[1] = <<"Increment">> ->
                [kind |-> "Increment", id |-> f[2], progress |-> ParseValue(f[3])]
          [] f[1] = <<"Msg">> -> [kind |-> "Msg", id |-> f[2], msg |-> Rest(f, 3)]
          [] f[1] = <<"Finish">> ->
                [kind |-> "Finish", id |-> f[2], success |-> (f[3] = <<"true">>),
                 msg |-> Rest(f, 4)]

\* C12: a well-formed line is decoded to the payload of its kind with the fields taken
\* in order and the message the whole remainder of the line, '|' included.
C12_WellFormedDecodesInOrder ==
    (payload # NotParsed /\ WellFormed(input)) => payload = Expected(input)

\* a Start line whose message contains '|' was decoded with the message intact
C12_Witness ==
    /\ WellFormed(input)
    /\ payload.kind = "Start"
    /\ NumSeps(payload.msg) = 1
    /\ NumSeps(input) = 6

\* C8 as claimed: parse returns Unknown, and never panics, for every line that is not a
\* well-formed progress event.
C8_MalformedIsUnknown ==
    (payload # NotParsed /\ ~WellFormed(input)) => payload = Unknown

\* C8 as amended: parse returns Unknown exactly for the lines with two separators and an
\* unrecognized event kind; on every other malformed line it panics on an unwrap.
C8_UnknownOnlyForUnrecognizedKind ==
    payload # NotParsed =>
        /\ UnrecognizedKind(input) <=> payload = Unknown
        /\ (~WellFormed(input) /\ ~UnrecognizedKind(input)) <=> payload = Panicked

\* a line of an unrecognized kind was parsed to Unknown
C8_Witness ==
    /\ input = <<"x", "|", "a", "|", "7">>
    /\ payload = Unknown

(***************************************************************************)
(* Properties of ProgressBar                                               *)
(***************************************************************************)
IsFinish(line) == line # <<>> /\ Head(line) = "Finish"

IsIncrement(line) == line # <<>> /\ Head(line) = "Increment"

NumFinish(lines) == Cardinality({i \in 1..Len(lines) : IsFinish(lines[i])})

\* C9: a bar dropped without a call of finish has emitted exactly one Finish event, with
\* success=false, as its last event; a bar dropped after calls of finish has emitted the
\* Finish events of those calls and no other.
C9_DropFinishesOnce ==
    ~alive =>
        IF finish_calls = 0
        THEN /\ NumFinish(emitted) = 1
             /\ emitted[Len(emitted)] = FmtFinish(bar.id, FALSE, bar.failure_message)
        ELSE NumFinish(emitted) = finish_calls

\* a bar was dropped after increments and no call of finish
C9_Witness ==
    /\ ~alive
    /\ finish_calls = 0
    /\ Len(emitted) >= 3
    /\ IsIncrement(emitted[2])

\* C10: the progress of a bar is between 0 and its length, and every Increment event it
\* has emitted carries a value between 0 and its length.
C10_ProgressWithinLen ==
    /\ bar.progress \in 0..bar.len
    /\ \A i \in 1..Len(emitted) :
        IsIncrement(emitted[i]) => \E v \in 0..bar.len : emitted[i] = FmtIncrement(bar.id, v)

\* increments that add up to more than the length left the bar at its length
C10_Witness ==
    /\ bar.len = 2
    /\ bar.progress = 2
    /\ Len(emitted) >= 3
    /\ IsIncrement(emitted[2])
    /\ IsIncrement(emitted[3])
    /\ emitted[2] # emitted[3]

\* the length the latest Start payload decoded for id declared, NoValue when there is none
DeclaredLen(id) ==
    LET starts == {i \in 1..Len(decoded) : decoded[i].kind = "Start" /\ decoded[i].id = id}
    IN  IF starts = {} THEN NoValue
        ELSE decoded[CHOOSE i \in starts : \A j \in starts : j <= i].len

\* the value written on an Increment line
WrittenValue(line) == ParseValue(SplitAll(line)[3])

\* C11: an Increment line whose value exceeds the length declared by the Start line of
\* its id decodes to that length.
C11_DecodeClampsToLen ==
    (/\ payload.kind = "Increment"
     /\ DeclaredLen(payload.id) # NoValue
     /\ WrittenValue(input) > DeclaredLen(payload.id))
        => payload.progress = DeclaredLen(payload.id)

\* the line the owner's call finish(success, msg) emits, as claimed
ClaimedFinishLine(success, msg) ==
    FmtFinish(bar.id, success, IF ~success /\ msg = <<>> THEN bar.failure_message ELSE msg)

\* C13: every call finish(success, msg) emits a Finish event whose message is the bar's
\* failure message when success is false and msg is empty, and msg as given otherwise.
C13_FinishMessageAsSupplied ==
    [][\A success \in BOOLEAN, msg \in Msgs :
          (MoreOps /\ finish(success, msg) /\ finish_calls' = finish_calls + 1)
              => emitted' = Append(emitted, ClaimedFinishLine(success, msg))]_vars

(***************************************************************************)
(* Properties of toggle_mod                                                *)
(***************************************************************************)
\* the outermost call has returned
Returned == stack = <<>> /\ tresult # NoResult

ReturnedOk == stack = <<>> /\ tresult.val = "Ok"

\* the mod had neither config.json nor default-config.json when the call was made
WasBare(mod) ==
    files_at_call[mod].config = NoFile /\ files_at_call[mod].default = NoFile

\* the mod had a default-config.json and no config.json when the call was made
WasFresh(mod) ==
    files_at_call[mod].config = NoFile /\ files_at_call[mod].default # NoFile

\* the local mods a mod lists as dependencies
DirectDeps(mod) == Range(manifests[mod]) \cap local_db.mods

RECURSIVE ReachFrom(_)
\* the mods reached from a set of mods along dependency edges, the set included
ReachFrom(mods) ==
    LET more == mods \cup UNION {DirectDeps(m) : m \in mods}
    IN  IF more = mods THEN mods ELSE ReachFrom(more)

\* no mod is reached from its own dependencies
Acyclic == \A m \in local_db.mods : m \notin ReachFrom(DirectDeps(m))

\* C14: after a successful toggle_mod(mod, enabled = v), get_mod_enabled(mod) returns v,
\* whether config.json existed or was materialized from default-config.json.
C14_ToggleThenGetEnabled ==
    ReturnedOk =>
        get_mod_enabled(files, tcall.mod) = [val |-> "Ok", enabled |-> tcall.enabled]

\* a mod without config.json, whose default carries the other value, was toggled
C14_Witness ==
    /\ ReturnedOk
    /\ WasFresh(tcall.mod)
    /\ files_at_call[tcall.mod].default.enabled # tcall.enabled

\* C15: a second call with the same mod, enabled value and recursive flag leaves the
\* configuration files of every mod as the first call left them.
C15_ToggleIdempotent ==
    (Returned /\ tcalls >= 2 /\ tprev.call = tcall) => files = tprev.files

\* a successful recursive toggle of the chain was repeated with the same arguments
C15_Witness ==
    /\ ReturnedOk
    /\ tcalls = 2
    /\ tprev.call = tcall
    /\ tprev.result.val = "Ok"
    /\ tcall.recursive
    /\ manifests = Chain
    /\ WasFresh("C") = FALSE
    /\ files["C"].config.enabled = tcall.enabled

\* C16: on an acyclic dependency graph a successful recursive toggle of A to v leaves A
\* and every mod reached from A enabled = v, and every other mod as it was.
C16_RecursiveReachesAll ==
    (ReturnedOk /\ tcall.recursive /\ Acyclic) =>
        \A m \in local_db.mods :
            IF m \in ReachFrom({tcall.mod})
            THEN get_mod_enabled(files, m) = [val |-> "Ok", enabled |-> tcall.enabled]
            ELSE files[m] = files_at_call[m]

\* A, B and C of the chain were disabled, C having been enabled, and D was left enabled
C16_Witness ==
    /\ ReturnedOk
    /\ manifests = Chain
    /\ tcall = [mod |-> "A", enabled |-> FALSE, recursive |-> TRUE]
    /\ get_mod_enabled(files_at_call, "C").enabled
    /\ ~get_mod_enabled(files, "C").enabled
    /\ get_mod_enabled(files, "D").enabled

\* C17: a successful recursive toggle changes only the mod and its direct dependencies.
C17_DependenciesToggledShallow ==
    (ReturnedOk /\ tcall.recursive) =>
        \A m \in local_db.mods :
            m \notin ({tcall.mod} \cup DirectDeps(tcall.mod)) => files[m] = files_at_call[m]

\* C18: a recursive toggle never exhausts the stack, whatever the dependency graph.
C18_RecursiveToggleTerminates == tresult.val # "StackOverflow"

\* C19: a call for a mod with neither config.json nor default-config.json returns an
\* error and leaves every file as it was; a mod with only default-config.json has its
\* config.json copied from the default when toggle_mod is entered again to set the flag,
\* and ends with the default's settings and the requested flag.
C19_NoDefaultNoConfig ==
    /\ (Returned /\ WasBare(tcall.mod)) => (tresult.val = "Err" /\ files = files_at_call)
    /\ (Len(stack) = 2 /\ Top.pc = "entry" /\ stack[1].mod = Top.mod /\ WasFresh(Top.mod)) =>
            files[Top.mod].config = write_config(read_config(files[Top.mod].default).conf)
    /\ (ReturnedOk /\ WasFresh(tcall.mod)) =>
            files[tcall.mod].config =
                Json(tcall.enabled, files[tcall.mod].default.settings, FALSE)

\* a recursive toggle of a mod with dependencies and neither file returned the error
C19_Witness ==
    /\ Returned
    /\ WasBare(tcall.mod)
    /\ tcall.recursive
    /\ DirectDeps(tcall.mod) # {}
    /\ tresult = [val |-> "Err", line |-> 64]

(***************************************************************************)
(* Properties of the log sessions                                          *)
(***************************************************************************)
\* the messages of a session that arrived as number from..to, in arrival order
Arrived(port, from, to) == SubSeq(log_hist[port].sent, from, to)

\* Arrived without the messages whose write_log failed
ArrivedAndWritten(port, from, to) ==
    LET Written(msg) == msg.n \notin log_hist[port].failed
    IN  SelectSeq(Arrived(port, from, to), Written)

\* C20: the line list of an open session holds, in arrival order and without gaps, the
\* messages appended since the last clear, so that the message at index k is the k-th
\* message handled after that clear; the file holds, in arrival order, every message
\* handled whose write did not fail; and a message is written and appended in one step
\* of the handler that holds the game_log write guard.
C20_LogOrderPreserved ==
    /\ [](\A port \in Ports :
            /\ IsOpen(port) =>
                  game_log[port] = Arrived(port, log_hist[port].cleared_upto + 1,
                                           log_hist[port].appended)
            /\ log_file[port] = ArrivedAndWritten(port, 1, log_hist[port].appended))
    /\ [][\A port \in Ports :
            /\ log_file'[port] # log_file[port] =>
                  /\ writer["game_log"] = port
                  /\ IsOpen(port)
                  /\ game_log'[port] = Append(game_log[port], held[port])
                  /\ log_file'[port] = Append(log_file[port], held[port])
            /\ (IsOpen(port) /\ port \in DOMAIN game_log' /\ game_log'[port] # game_log[port]
                    /\ game_log'[port] # <<>>) =>
                  /\ writer["game_log"] = port
                  /\ game_log'[port] = Append(game_log[port], held[port])]_vars

\* after a clear the list of a session started again at index 0 with the second message
\* while its file kept both
C20_Witness ==
    /\ IsOpen(1)
    /\ log_hist[1].cleared_upto = 1
    /\ Len(game_log[1]) = 1
    /\ Len(log_file[1]) = 2
    /\ game_log[1][1].n = 2

\* log_handler is inside its loop body for the message it holds, on an open session
Handling(port) ==
    /\ writer["game_log"] = port
    /\ held[port] # NoMsg
    /\ IsOpen(port)

\* the numbers of the messages for which an event of this name was emitted
EventsFor(port, name) ==
    {log_events[port][i].n : i \in {j \in 1..Len(log_events[port]) : log_events[port][j].name = name}}

\* the numbers of the messages of this type that log_handler appended
AppendedOfType(port, type) ==
    {i \in 1..log_hist[port].appended : log_hist[port].sent[i].type = type}

\* C21: LOG-FATAL was emitted for exactly the Fatal messages a session handled; and the
\* step that handles a message on an open session emits LOG-FATAL first if and only if
\* the message is Fatal, hands it to write_log (whose failure is only logged), appends
\* it to the line list, emits LOG-UPDATE last and leaves the session open.
C21_FatalIffClassified ==
    /\ [](\A port \in Ports : EventsFor(port, "LOG-FATAL") = AppendedOfType(port, "Fatal"))
    /\ [][\A port \in Ports :
            (Handling(port) /\ held'[port] = NoMsg) =>
                LET msg == held[port]
                    fatal == IF msg.type = "Fatal"
                             THEN <<LogEvent("LOG-FATAL", port, msg.n)>> ELSE <<>>
                IN  /\ log_events'[port] =
                           log_events[port] \o fatal \o <<LogEvent("LOG-UPDATE", port, msg.n)>>
                    /\ \/ log_file'[port] = Append(log_file[port], msg)
                       \/ /\ log_file'[port] = log_file[port]
                          /\ msg.n \in log_hist'[port].failed
                    /\ port \in DOMAIN game_log'
                    /\ game_log'[port] = Append(game_log[port], msg)]_vars

\* a Fatal message was handled after an Info message: one LOG-FATAL, two LOG-UPDATE,
\* both messages in the file and in the list of the session, which is still open
C21_Witness ==
    /\ IsOpen(1)
    /\ held[1] = NoMsg
    /\ game_log[1] = <<Msg(1, "Info"), Msg(2, "Fatal")>>
    /\ log_file[1] = game_log[1]
    /\ log_events[1] = <<LogEvent("LOG-UPDATE", 1, 1), LogEvent("LOG-FATAL", 1, 2),
                         LogEvent("LOG-UPDATE", 1, 2)>>

\* clear_logs(port) returns in this step
Clearing(port) == log_hist'[port].clears = log_hist[port].clears + 1

\* C22: a clear_logs(port) step empties the line list of that session and leaves the
\* set of registered sessions, the lists of the other sessions, every log file and
\* every message in flight as they were; and the first message handled on a cleared
\* list goes to the same file and becomes the only line of the list (index 0).
C22_ClearOnlyEmptiesList ==
    [][\A port \in Ports :
          /\ Clearing(port) =>
                /\ DOMAIN game_log' = DOMAIN game_log
                /\ \A q \in DOMAIN game_log :
                       game_log'[q] = IF q = port THEN <<>> ELSE game_log[q]
                /\ UNCHANGED <<log_file, chan, held, hvars>>
          /\ (Handling(port) /\ held'[port] = NoMsg /\ log_hist[port].clears > 0
                  /\ log_hist[port].cleared_upto = log_hist[port].appended) =>
                /\ game_log'[port] = <<held[port]>>
                /\ \/ log_file'[port] = Append(log_file[port], held[port])
                   \/ held[port].n \in log_hist'[port].failed]_vars

\* the list of session 1 was cleared after its first message: its list is empty, its
\* file keeps the message, both sessions are registered and session 2 keeps its line
C22_Witness ==
    /\ log_hist[1].clears = 1
    /\ log_hist[1].cleared_upto = 1
    /\ IsOpen(1) /\ IsOpen(2)
    /\ game_log[1] = <<>>
    /\ Len(log_file[1]) = 1
    /\ Len(game_log[2]) = 1

(***************************************************************************)
(* Properties of the protocol URL                                          *)
(***************************************************************************)
\* the PROTOCOL_INVOKE events that pop_protocol_url calls emitted
PopEvents == SelectSeq(protocol_events, LAMBDA e : e.by # DeepLinkHandler)

\* C23: pop_protocol_url calls emit at most one PROTOCOL_INVOKE between them, it is
\* emitted by the first call and carries the URL that was stored, and once any call
\* has returned the stored URL is None.
C23_UrlDeliveredAtMostOnce ==
    /\ [](/\ Len(PopEvents) <= 1
          /\ \A i \in 1..Len(PopEvents) : PopEvents[i].call = 1 /\ PopEvents[i].payload # NoUrl
          /\ (\E p \in Procs : pc[p] = "done") => protocol_url = NoUrl)
    /\ [][\A p \in Procs :
            (pc[p] = "pop_check" /\ pc'[p] = "pop_clear") =>
                protocol_events' =
                    IF pops = 1 /\ protocol_url # NoUrl
                    THEN Append(protocol_events, ProtocolEvent(p, 1, protocol_url))
                    ELSE protocol_events]_vars

\* three calls have returned, two of them made by the same task, and only the first
\* emitted the stored URL
C23_Witness ==
    /\ pops = MaxPops
    /\ \A p \in Procs : pc[p] = "done"
    /\ Len(PopEvents) = 1
    /\ PopEvents[1].payload \in Payloads

(***************************************************************************)
(* Properties of the busy set while an operation is in flight              *)
(***************************************************************************)
\* handler q has marked name n busy and has not finished installing it
InFlight(q, n) ==
    \/ /\ pc[q] \in {"im_read", "im_installing", "um_read", "um_installing"}
       /\ unique_name[q] = n
    \/ /\ pc[q] = "ua_installing"
       /\ contains(unique_names[q], n)

\* C24: while an install_mod, update_mod or update_all_mods on a name is in flight the
\* name is in mods_in_progress, and a get_mod_busy for it returns true.
C24_BusyWhileInFlight ==
    /\ [](\A q \in Procs : \A n \in Names :
             InFlight(q, n) => contains(mods_in_progress, n))
    /\ [][\A p \in Procs :
            (Idle(p) /\ pc'[p] = "done" /\ result'[p].line = 780) =>
                \A q \in Procs \ {p} :
                    InFlight(q, unique_name'[p]) => result'[p].val = TRUE]_vars

\* C25: a handler that has emitted TOGGLE_FS_WATCH(false) and has returned, with Ok or
\* with an error, emitted TOGGLE_FS_WATCH(true) after it: the last payload is true.
C25_FsWatchReenabled ==
    \A p \in Procs :
        (Done(p) /\ contains(fs_events[p], FALSE)) => fs_events[p][Len(fs_events[p])] = TRUE

(***************************************************************************)
(* Emitting a progress event and parsing its line                          *)
(***************************************************************************)
\* the events a bar with this id can log, as the payloads that describe them
Events(id) ==
    {[kind |-> "Start", id |-> id, msg |-> msg, progress_action |-> k[2],
      progress_type |-> k[1], len |-> len] : len \in Lens, k \in BarKinds, msg \in Msgs}
    \cup {[kind |-> "Increment", id |-> id, progress |-> v] : v \in 0..MaxValue}
    \cup {[kind |-> "Msg", id |-> id, msg |-> msg] : msg \in Msgs}
    \cup {[kind |-> "Finish", id |-> id, success |-> success, msg |-> msg] :
             success \in BOOLEAN, msg \in Msgs \cup FailureMessages}

\* the line new, inc, set_msg and finish log for an event
Emit(e) ==
    CASE e.kind = "Start" -> FmtStart(e.id, e.len, e.progress_type, e.progress_action, e.msg)
      [] e.kind = "Increment" -> FmtIncrement(e.id, e.progress)
      [] e.kind = "Msg" -> FmtMsg(e.id, e.msg)
      [] e.kind = "Finish" -> FmtFinish(e.id, e.success, e.msg)

AllEvents == UNION {Events(id) : id \in Ids}

\* the line of every event
EventLine == [e \in AllEvents |-> Emit(e)]

\* what ProgressPayload::parse makes of the line of every event
Reparsed == [e \in AllEvents |-> parse(Emit(e))]

\* C26: the line a bar logged last (every line was once the last) is the line of one
\* of the bar's events, and ProgressPayload::parse turns the line of an event back into
\* that event: same kind, id, length, progress type, progress action, progress value,
\* success flag and message.
C26_EmitParseRoundTrip ==
    LET line == emitted[Len(emitted)]
    IN  /\ \E e \in AllEvents : e.id = bar.id /\ EventLine[e] = line
        /\ \A e \in AllEvents : EventLine[e] = line => Reparsed[e] = e

\* a bar started with a message that contains '|', was incremented, got the same
\* message set and finished successfully with it
C26_Witness ==
    /\ Len(emitted) = 4
    /\ parse(emitted[1]).kind = "Start" /\ parse(emitted[1]).msg = <<"m", "|", "n">>
    /\ parse(emitted[2]).kind = "Increment" /\ parse(emitted[2]).progress = 1
    /\ parse(emitted[3]) = [kind |-> "Msg", id |-> bar.id, msg |-> <<"m", "|", "n">>]
    /\ parse(emitted[4]) = [kind |-> "Finish", id |-> bar.id, success |-> TRUE,
                            msg |-> <<"m", "|", "n">>]

\* C27: a bar logs at most one Finish line, and no line after it.
C27_FinishIsLast ==
    /\ NumFinish(emitted) <= 1
    /\ \A i \in 1..Len(emitted) : IsFinish(emitted[i]) => i = Len(emitted)

C29_ProgressNeverDecreases == [][bar'.progress >= bar.progress]_vars

(***************************************************************************)
(* Properties of closed log sessions and of the readers                    *)
(***************************************************************************)
NotRunning == [val |-> "Err", error |-> "Log Server Not Running"]

\* C30: for a closed session get_log_lines and get_game_message return the error
\* "Log Server Not Running"; for an open session get_game_message returns the line at
\* an index inside the list and an error, not a panic, at an index outside it; a closed
\* session is not registered again, and a message its log_handler handles after the
\* close changes no line list and no file and emits no event.
C30_ClosedSessionDiscards ==
    /\ [](\A port \in Ports :
            /\ ~IsOpen(port) =>
                  /\ get_log_lines(game_log, port) = NotRunning
                  /\ \A line \in LineArgs : get_game_message(game_log, port, line) = NotRunning
            /\ IsOpen(port) =>
                  \A line \in LineArgs :
                      get_game_message(game_log, port, line) =
                          IF line + 1 \in DOMAIN game_log[port]
                          THEN [val |-> "Ok", msg |-> game_log[port][line + 1]]
                          ELSE [val |-> "Err", error |-> "Invalid Log Line"])
    /\ [][\A port \in Ports :
            ~IsOpen(port) =>
                /\ port \notin DOMAIN game_log'
                /\ log_file'[port] = log_file[port]
                /\ log_events'[port] = log_events[port]
                /\ (held[port] # NoMsg /\ held'[port] = NoMsg) =>
                       UNCHANGED <<game_log, log_file, log_events>>]_vars

\* session 1 was closed before its only message was handled, and the message is gone
\* without a trace; session 2 is open and its list was cleared after its first line,
\* so that index 0, valid before the clear, is outside the list
C30_Witness ==
    /\ ~IsOpen(1)
    /\ Len(log_hist[1].sent) = 1
    /\ chan[1] = <<>> /\ held[1] = NoMsg
    /\ log_file[1] = <<>> /\ log_events[1] = <<>>
    /\ IsOpen(2)
    /\ log_hist[2].cleared_upto = 1
    /\ get_game_message(game_log, 2, 0) = [val |-> "Err", error |-> "Invalid Log Line"]

====
